---- MODULE Spec2Model ----
(***************************************************************************)
(* Model of feelpp/apt: the publish operation AptlyPublisher.publish       *)
(* (src/src/feelpp_aptly_publisher/publisher.py).  One invocation is a      *)
(* strictly sequential run of external commands (git, rsync, aptly); every  *)
(* command is one step whose return code is chosen nondeterministically     *)
(* among the codes the command can produce in the current state.            *)
(*                                                                          *)
(* The repo engine (aptly) is an external process.  Its effects follow the  *)
(* contract the repository states for it at the call sites and in spec.md   *)
(* section 4.2: a command that returns nonzero changes nothing, a command   *)
(* that returns zero has the effect described there.                        *)
(***************************************************************************)
EXTENDS Integers, Sequences, FiniteSets, TLC

(***************************************************************************)
(* Bounds                                                                   *)
(***************************************************************************)
\* number of invocations of the same command line in one behaviour
MaxRuns == 2
\* length of the component names given to the normalization
MaxLen == 4

(***************************************************************************)
(* Characters and component normalization                                   *)
(***************************************************************************)
None == "None"

\* str.lower() on the characters the model uses
Lower(ch) ==
    CASE ch = "A" -> "a"
      [] ch = "B" -> "b"
      [] OTHER -> ch

\* the character class [a-z0-9] of the regular expression
IsAlnum(ch) == ch \in {"a", "b", "1"}

LowerStr(s) == [i \in 1..Len(s) |-> Lower(s[i])]

\* the expression without the "+": every other character becomes a hyphen
RECURSIVE ReSub_each(_)
ReSub_each(s) ==
    IF s = <<>> THEN <<>>
    ELSE IF IsAlnum(Head(s)) THEN <<Head(s)>> \o ReSub_each(Tail(s))
    ELSE <<"-">> \o ReSub_each(Tail(s))

\* re.sub(r"[^a-z0-9]+", "-", s): every maximal run of other characters
\* becomes one hyphen
RECURSIVE ReSub(_)
ReSub(s) ==
    IF s = <<>> THEN <<>>
    ELSE IF IsAlnum(Head(s)) THEN <<Head(s)>> \o ReSub(Tail(s))
    ELSE IF Len(s) > 1 /\ ~IsAlnum(s[2]) THEN ReSub(Tail(s))
    ELSE <<"-">> \o ReSub(Tail(s))

RECURSIVE LStrip(_)
LStrip(s) == IF s # <<>> /\ Head(s) = "-" THEN LStrip(Tail(s)) ELSE s

RECURSIVE RStrip(_)
RStrip(s) ==
    IF s # <<>> /\ s[Len(s)] = "-" THEN RStrip(SubSeq(s, 1, Len(s) - 1)) ELSE s

\* str.strip("-")
Strip(s) == RStrip(LStrip(s))

\* the hyphens stripped before the substitution
_normalize_component_strip_first(s) == ReSub(Strip(LowerStr(s)))

_normalize_component(s) == Strip(ReSub(LowerStr(s)))

\* the characters of the component names given to the normalization
Alphabet == {"A", "b", "1", "-", "_"}

\* the strings of at most n characters
Strings(n) == UNION { [1..k -> Alphabet] : k \in 0..n }

(***************************************************************************)
(* Inputs of an invocation                                                  *)
(***************************************************************************)
\* --component values as typed by the user
RawComponents == { <<"A">>, <<"_", "b", " ", "-">> }

\* (sign, keyid, passphrase) combinations
SignArgs ==
    { [sign |-> FALSE, keyid |-> None, passphrase |-> None],
      [sign |-> FALSE, keyid |-> "K",  passphrase |-> "pw"],
      [sign |-> TRUE,  keyid |-> None, passphrase |-> None],
      [sign |-> TRUE,  keyid |-> "K",  passphrase |-> None],
      [sign |-> TRUE,  keyid |-> "K",  passphrase |-> "pw"] }

\* --debs: not given, a missing path, a directory without .deb, a
\* directory with .deb files
DebsArgs == { None, "missing", "empty", "debs" }

\* sorted(glob(debs_path / "*.deb"))
Glob(d) == IF d = "debs" THEN {"p1"} ELSE {}
IsDir(d) == d \in {"empty", "debs"}

\* --aptly-root: not given (temporary workspace) or a directory that
\* outlives the invocation
RootArgs == { None, "P" }

\* a path of the file system: the directory it names and whether it is
\* written as an absolute path
NoPath == [dir |-> None, abs |-> FALSE]

\* --aptly-config: not given, a path that is no file, a descriptor without
\* rootDir, a descriptor whose rootDir is a relative path
ConfigArgs == { None, "nofile", "norootdir", "relative" }

\* user_cfg_path.is_file()
IsFile(c) == c \in {"norootdir", "relative"}

\* cfg_data.get("rootDir")
RootDirOf(c) == IF c = "relative" THEN [dir |-> "C", abs |-> FALSE] ELSE NoPath

\* the path left as it is written
Resolve_asis(p) == p

\* Path.resolve(): the same directory, as an absolute path
Resolve(p) == [p EXCEPT !.abs = TRUE]

\* the directories of the model: the two temporary directories of the with
\* block and the directories a command line can name as engine root
TempDirs == {"pages", "tmp"}
RootDirs == {"tmp", "P", "C"}

Tools == {"git", "rsync", "aptly", "gpg"}
\* the PATH either has every tool or lacks exactly one
Paths == {Tools} \cup { Tools \ {t} : t \in Tools }

(***************************************************************************)
(* Published tree: the part of a working tree that belongs to the target    *)
(* (channel, distribution)                                                  *)
(***************************************************************************)
\* InRelease: {channel}/dists/{distro}/InRelease exists
\* pkgs: the components of its "Components:" field, each with its package set
\* nojekyll: the marker file .nojekyll exists
EmptyTree == [InRelease |-> FALSE, pkgs |-> <<>>, nojekyll |-> FALSE]

Publication(f) == [InRelease |-> TRUE, pkgs |-> f, nojekyll |-> TRUE]

CompA == <<"a">>
CompB == <<"b">>

\* trees the published branch holds before the first invocation
InitialTrees ==
    { EmptyTree,
      Publication(CompA :> {"p0"}),
      Publication(CompA :> {"p0"} @@ CompB :> {"q0"}) }

\* "Components:" field of the InRelease file, split on white space
ParseComponents(tree) == DOMAIN tree.pkgs

(***************************************************************************)
(* Engine root directory (rootDir): database and public directory          *)
(***************************************************************************)
\* known:   the database holds the publication (distro, prefix)
\* comps:   the components of that publication in the database
\* pending: components whose source was added but not yet written out
\* repos:   staging repositories, by component, with their package sets
\* snaps:   snapshots, by name, with their package sets
\* public:  rootDir/public
FreshRoot ==
    [known |-> FALSE, comps |-> {}, pending |-> <<>>, repos |-> <<>>,
     snaps |-> <<>>, public |-> EmptyTree]

VARIABLES
    self,          \* constructor arguments of AptlyPublisher
    debs_dir,      \* argument of publish()
    path,          \* tools on PATH
    remote,        \* the published branch: [branch, tree]
    roots,         \* engine roots: "tmp" (TemporaryDirectory) and "P"
    pages,         \* the cloned tree: [cloned, orphan, committed, tree]
    pc,            \* position in publish()
    cmds,          \* external commands issued by this invocation, in order
    result,        \* how the invocation ended
    snap,          \* local snap
    publication_exists,
    our_publication_exists,
    existing_components,
    cloned_tree,   \* the tree as checked out by the clone
    run,           \* number of the invocation
    before,        \* published tree and engine root when the invocation started
    prev,          \* outcome of the previous invocation
    aptly_cfg,     \* the configuration written for the engine
    exists,        \* the directories that exist
    origin,        \* concurrent invocations: the published branch with its head
    inv,           \* concurrent invocations: the state of each invocation
    norm,          \* normalization: the argument and the values returned
    fs,            \* cleanup: the files and directories of the repository
    cleaner,       \* cleanup: the policy, the flags, dpkg installed or not
    cl,            \* cleanup: position and locals of the command
    cli,           \* command line: position, arguments and exit status
    script         \* standalone script: position, trees, commands, result

\* the variables of one invocation run on its own
publish_vars ==
    <<self, debs_dir, path, remote, roots, pages, pc, cmds, result, snap,
      publication_exists, our_publication_exists, existing_components,
      cloned_tree, run, before, prev, aptly_cfg, exists>>

\* the variables of two invocations run at the same time
concurrent_vars == <<origin, inv>>

normalize_vars == <<norm>>

cleaner_vars == <<fs, cleaner, cl>>

cli_vars == <<cli>>

script_vars == <<script>>

vars ==
    <<publish_vars, concurrent_vars, normalize_vars, cleaner_vars, cli_vars,
      script_vars>>

\* what a step of one invocation run on its own leaves alone
beside_publish == <<concurrent_vars, normalize_vars, cleaner_vars, cli_vars,
      script_vars>>

\* what a step of two concurrent invocations leaves alone
beside_concurrent == <<publish_vars, normalize_vars, cleaner_vars, cli_vars,
      script_vars>>

\* what a call of the normalization leaves alone
beside_normalize == <<publish_vars, concurrent_vars, cleaner_vars, cli_vars,
      script_vars>>

\* what a step of the cleanup command leaves alone
beside_cleaner == <<publish_vars, concurrent_vars, normalize_vars, cli_vars,
      script_vars>>

\* what a step of the command line leaves alone
beside_cli ==
    <<publish_vars, concurrent_vars, normalize_vars, cleaner_vars, script_vars>>

\* what a step of the standalone script leaves alone
beside_script ==
    <<publish_vars, concurrent_vars, normalize_vars, cleaner_vars, cli_vars>>

locals == <<snap, publication_exists, our_publication_exists,
            existing_components>>

args == <<self, debs_dir, path>>

NoRun == [ok |-> FALSE, changed |-> FALSE, comps |-> {}]

NoClone == [cloned |-> FALSE, orphan |-> FALSE, committed |-> FALSE,
            tree |-> EmptyTree]

NoCfg == [rootDir |-> NoPath]

\* aptly_home (lines 147-166): --aptly-root when given, else the rootDir of
\* the supplied configuration, else .aptly in the temporary directory
aptly_home ==
    IF self.aptly_root # None THEN self.aptly_root
    ELSE IF self.aptly_config # None /\ RootDirOf(self.aptly_config) # NoPath
         THEN RootDirOf(self.aptly_config).dir
         ELSE "tmp"

home == roots[aptly_home]

\* repo_name = f"{component}-{distro}-{channel}"; distro and channel are
\* fixed in the model, so the component names the staging repository
repo_name == self.component

\* snap = f"{repo_name}-{ts}"
SnapName == <<repo_name, run>>

RC == {0, 1}

\* return codes a command can produce: 0 only where the command can succeed
Codes(can) == IF can THEN RC ELSE {1}

\* one entry of the command log; forced: the command could not succeed
Cmd(name, rc, can) ==
    [cmd |-> name, tool |-> None, component |-> <<>>, snap |-> <<>>,
     force |-> FALSE, sign |-> <<>>, rc |-> rc, forced |-> ~can]

\* a publish subcommand with its options
PublishCmd(name, comp, sn, force, sopts, rc, can) ==
    [cmd |-> name, tool |-> None, component |-> comp, snap |-> sn,
     force |-> force, sign |-> sopts, rc |-> rc, forced |-> ~can]

\* check with the flag of "repo add" left at False
check_repo_add_unchecked(name) ==
    name \notin {"git clone -b", "git rm", "db recover", "repo create",
                "repo add",
                "publish list -raw", "publish list", "publish show",
                "publish switch", "publish add", "publish update",
                "git commit"}

\* check with the flag of "snapshot create" left at False
check_snapshot_unchecked(name) ==
    name \notin {"git clone -b", "git rm", "db recover", "repo create",
                "snapshot create",
                "publish list -raw", "publish list", "publish show",
                "publish switch", "publish add", "publish update",
                "git commit"}

\* git add run with check=False
check_git_add_unchecked(name) ==
    name \notin {"git clone -b", "git rm", "db recover", "repo create",
                "publish list -raw", "publish list", "publish show",
                "publish switch", "publish add", "publish update",
                "git commit", "git add"}

\* db recover run with check=True
\* a failure of the clone of the target branch is fatal
check_clone_checked(name) ==
    name \notin {"git rm", "db recover", "repo create",
                "publish list -raw", "publish list", "publish show",
                "publish switch", "publish add", "publish update",
                "git commit"}

check_recover_checked(name) ==
    name \notin {"git clone -b", "git rm", "repo create",
                "publish list -raw", "publish list", "publish show",
                "publish switch", "publish add", "publish update",
                "git commit"}

\* the sync back to the clone run with check=False
check_sync_unchecked(name) ==
    name \notin {"git clone -b", "git rm", "db recover", "repo create",
                "publish list -raw", "publish list", "publish show",
                "publish switch", "publish add", "publish update",
                "git commit", "rsync --delete"}

\* _run(..., check=...): the check flag of every call site; a command run
\* with check=True raises CalledProcessError on a nonzero return code
check(name) ==
    name \notin {"git clone -b", "git rm", "db recover", "repo create",
                "publish list -raw", "publish list", "publish show",
                "publish switch", "publish add", "publish update",
                "git commit"}

\* sign_opts (publisher.py 244-250)
sign_opts ==
    IF self.sign
    THEN IF self.passphrase # None
         THEN <<"-gpg-key", self.keyid, "-passphrase", self.passphrase>>
         ELSE <<"-gpg-key", self.keyid>>
    ELSE <<"-skip-signing">>

\* the invocations that run at the same time
Procs == {1, 2}

\* commits of the published branch: none, the head the branch starts with,
\* the commit an invocation creates
NoCommit == 0
BaseCommit == 1
CommitOf(p) == 1 + p

NoOrigin == [branch |-> FALSE, head |-> NoCommit, tree |-> EmptyTree]

\* an invocation before its first step
Starting(c, d) ==
    [pc |-> "clone", component |-> c, debs |-> d, cloned |-> FALSE,
     base |-> NoCommit, head |-> NoCommit, tree |-> EmptyTree,
     cloned_tree |-> EmptyTree, clones |-> 0, pushes |-> 0, push_rc |-> 0, result |-> None]

ConcurrentIdle ==
    /\ origin = NoOrigin
    /\ inv = [p \in Procs |-> Starting(<<>>, {})]

\* the normalization called on s: calls counts the calls made, once and
\* twice hold the value returned by the first and by the second call
Called(s) == [s |-> s, calls |-> 0, once |-> <<>>, twice |-> <<>>]

NormalizeIdle == norm = Called(<<>>)

NoFiles == [files |-> {}, dirs |-> {}]

NoCleaner ==
    [policy |-> <<>>, dpkg |-> FALSE, call |-> None, flags |-> <<>>]

\* the locals of the command before its first step
Entered(tree) ==
    [pc |-> "scan", packages |-> {}, prerelease_candidates |-> {},
     version_limit_candidates |-> {}, todo |-> {}, deleted |-> {},
     failed |-> {}, before |-> tree]

CleanerIdle ==
    /\ fs = NoFiles
    /\ cleaner = NoCleaner
    /\ cl = [Entered(NoFiles) EXCEPT !.pc = "done"]

\* main() entered with the arguments of the command line
Parsed_args(a) ==
    [pc |-> "parse", args |-> a, func |-> None, exc |-> None, exit |-> -1,
     pushed |-> FALSE, traceback |-> FALSE]

CliIdle == cli = [Parsed_args(<<>>) EXCEPT !.pc = "done"]

\* the standalone script after "snapshot create" (aptly_publish.py 200):
\* the engine's public root was seeded from the clone of the branch
Staged(component, known, staged, tree) ==
    [pc |-> "decide", component |-> component, known |-> known,
     staged |-> staged, public |-> tree, pages |-> tree, remote |-> tree,
     before |-> tree, committed |-> FALSE, cmds |-> <<>>, result |-> None]

ScriptIdle ==
    script = [Staged(<<>>, FALSE, FALSE, EmptyTree) EXCEPT !.pc = "done"]

Init ==
    /\ ConcurrentIdle
    /\ NormalizeIdle
    /\ CleanerIdle
    /\ CliIdle
    /\ ScriptIdle
    /\ \E raw \in RawComponents, s \in SignArgs, r \in RootArgs :
          self = [component |-> _normalize_component(raw),
                  sign |-> s.sign, keyid |-> s.keyid,
                  passphrase |-> s.passphrase, aptly_root |-> r,
                  aptly_config |-> None]
    /\ debs_dir \in DebsArgs
    /\ path \in Paths
    /\ \E b \in BOOLEAN, t \in InitialTrees :
          /\ (~b => t = EmptyTree)
          /\ remote = [branch |-> b, tree |-> t]
    /\ roots = [h \in RootDirs |-> FreshRoot]
    /\ pages = NoClone
    /\ pc = "validate"
    /\ cmds = <<>>
    /\ result = None
    /\ snap = <<>>
    /\ publication_exists = FALSE
    /\ our_publication_exists = FALSE
    /\ existing_components = {}
    /\ run = 1
    /\ cloned_tree = EmptyTree
    /\ before = [tree |-> remote.tree, known |-> FALSE, public |-> FALSE]
    /\ prev = NoRun
    /\ aptly_cfg = NoCfg
    /\ exists = {}

(***************************************************************************)
(* Leaving publish(): the with block removes both temporary directories     *)
(***************************************************************************)
\* every command that could succeed did
Clean(log) == \A i \in 1..Len(log) : log[i].rc = 0 \/ log[i].forced

\* a with block that leaves its temporary directories behind
Teardown_none(dirs) == dirs

\* TemporaryDirectory.__exit__ of both directories of the with block
Teardown(dirs) == dirs \ TempDirs

End(res, log, newRoots, newRemote) ==
    /\ pc' = "done"
    /\ result' = res
    /\ cmds' = log
    /\ exists' = Teardown(exists)
    /\ roots' = IF "tmp" \in exists'
               THEN newRoots
               ELSE [newRoots EXCEPT !["tmp"] = FreshRoot]
    /\ pages' = IF "pages" \in exists' THEN pages ELSE NoClone
    /\ aptly_cfg' = IF "tmp" \in exists' THEN aptly_cfg ELSE NoCfg
    /\ remote' = newRemote
    /\ prev' = prev
    /\ UNCHANGED beside_publish

\* a nonzero return code under check=True raises CalledProcessError
Raise(log) ==
    /\ End("CalledProcessError", log, roots, remote)
    /\ UNCHANGED <<args, locals, cloned_tree, run, before>>

\* sys.exit(1)
Exit1(log) ==
    /\ End("SystemExit", log, roots, remote)
    /\ UNCHANGED <<args, locals, cloned_tree, run, before>>

\* continue with the next statement
Advance(label, log) ==
    /\ pc' = label
    /\ cmds' = log
    /\ UNCHANGED <<result, prev, args, run, before, aptly_cfg, exists>>
    /\ UNCHANGED beside_publish

Goto(label, log) ==
    /\ Advance(label, log)
    /\ UNCHANGED cloned_tree

(***************************************************************************)
(* publish(), lines 110-117: validate tools and signing arguments           *)
(***************************************************************************)
\* _ensure_cmd(name): "command -v name" under check=True, exit on failure
EnsureLog(log, names) ==
    LET F[i \in 0..Len(names)] ==
            IF i = 0 THEN log
            ELSE IF F[i-1] # log /\ F[i-1][Len(F[i-1])].rc # 0 THEN F[i-1]
            ELSE Append(F[i-1],
                        [Cmd("command -v", IF names[i] \in path THEN 0 ELSE 1,
                             names[i] \in path)
                           EXCEPT !.tool = names[i]])
    IN F[Len(names)]

Failed(log) == log # <<>> /\ log[Len(log)].rc # 0

Validate ==
    /\ pc = "validate"
    /\ LET l1 == EnsureLog(cmds, <<"git", "rsync", "aptly">>) IN
       IF Failed(l1) THEN Exit1(l1)
       ELSE IF self.sign /\ self.keyid = None THEN Exit1(l1)
       ELSE LET l2 == IF self.sign THEN EnsureLog(l1, <<"gpg">>) ELSE l1 IN
            IF Failed(l2) THEN Exit1(l2)
            ELSE /\ Goto("configure", l2)
                 /\ UNCHANGED <<remote, roots, pages, locals>>

\* lines 127-176: enter the with block, write the engine configuration,
\* create aptly_home
Configure ==
    /\ pc = "configure"
    /\ IF self.aptly_config # None /\ ~IsFile(self.aptly_config)
       THEN Exit1(cmds)
       ELSE IF /\ self.aptly_config # None
               /\ self.aptly_root = None
               /\ RootDirOf(self.aptly_config) = NoPath
       THEN Exit1(cmds)
       ELSE \E mkdir \in IF aptly_home = "tmp" THEN {TRUE} ELSE BOOLEAN :
              IF ~mkdir THEN Exit1(cmds)
              ELSE /\ aptly_cfg' =
                        [rootDir |->
                            IF self.aptly_root # None
                            THEN Resolve([dir |-> self.aptly_root, abs |-> FALSE])
                            ELSE IF self.aptly_config # None
                            THEN Resolve(RootDirOf(self.aptly_config))
                            ELSE [dir |-> "tmp", abs |-> TRUE]]
                   /\ exists' = exists \cup TempDirs \cup {aptly_home}
                   /\ pc' = "clone"
                   /\ UNCHANGED <<cmds, result, prev, args, run, before,
                                  cloned_tree, remote, roots, pages, locals>>
                   /\ UNCHANGED beside_publish

(***************************************************************************)
(* lines 178-185: clone the published branch, or create it as an orphan     *)
(***************************************************************************)
\* the default branch carries no published tree
DefaultBranchTree == EmptyTree

Clone ==
    /\ pc = "clone"
    /\ \E rc \in Codes(remote.branch) :
         LET log == Append(cmds, Cmd("git clone -b", rc, remote.branch)) IN
         IF rc # 0 /\ check("git clone -b") THEN Raise(log)
         ELSE /\ IF rc = 0
                 THEN /\ pages' = [cloned |-> TRUE, orphan |-> FALSE,
                                   committed |-> FALSE, tree |-> remote.tree]
                      /\ cloned_tree' = remote.tree
                      /\ Advance("seed", log)
                 ELSE /\ pages' = pages
                      /\ cloned_tree' = cloned_tree
                      /\ Advance("clone_default", log)
              /\ UNCHANGED <<remote, roots, locals>>

CloneDefault ==
    /\ pc = "clone_default"
    /\ \E rc \in RC :
         LET log == Append(cmds, Cmd("git clone", rc, TRUE)) IN
         IF rc # 0 /\ check("git clone") THEN Raise(log)
         ELSE /\ pages' = IF rc = 0
                          THEN [cloned |-> TRUE, orphan |-> FALSE,
                                committed |-> FALSE,
                                tree |-> DefaultBranchTree]
                          ELSE pages
              /\ cloned_tree' = DefaultBranchTree
              /\ Advance("checkout_orphan", log)
              /\ UNCHANGED <<remote, roots, locals>>

CheckoutOrphan ==
    /\ pc = "checkout_orphan"
    /\ \E rc \in Codes(pages.cloned) :
         LET log == Append(cmds, Cmd("git checkout --orphan", rc, pages.cloned)) IN
         IF rc # 0 /\ check("git checkout --orphan") THEN Raise(log)
         ELSE /\ pages' = IF rc = 0 THEN [pages EXCEPT !.orphan = TRUE]
                          ELSE pages
              /\ Goto("git_rm", log)
              /\ UNCHANGED <<remote, roots, locals>>

GitRm ==
    /\ pc = "git_rm"
    /\ \E rc \in RC :
         LET log == Append(cmds, Cmd("git rm", rc, TRUE)) IN
         IF rc # 0 /\ check("git rm") THEN Raise(log)
         ELSE /\ pages' = IF rc = 0 THEN [pages EXCEPT !.tree = EmptyTree]
                          ELSE pages
              /\ Goto("seed", log)
              /\ UNCHANGED <<remote, roots, locals>>

(***************************************************************************)
(* lines 203-216: seed the public root, recover the database                *)
(***************************************************************************)
\* rsync -a src/ dst/ (no --delete): files of src replace those of dst,
\* other files of dst stay
RsyncOver(src, dst) ==
    [InRelease |-> src.InRelease \/ dst.InRelease,
     pkgs |-> IF src.InRelease THEN src.pkgs ELSE dst.pkgs,
     nojekyll |-> src.nojekyll \/ dst.nojekyll]

SetHome(r) == [roots EXCEPT ![aptly_home] = r]

Seed ==
    /\ pc = "seed"
    /\ \E rc \in RC :
         LET log == Append(cmds, Cmd("rsync seed", rc, TRUE)) IN
         IF rc # 0 /\ check("rsync seed") THEN Raise(log)
         ELSE /\ roots' = IF rc = 0
                          THEN SetHome([home EXCEPT !.public =
                                          RsyncOver(pages.tree, home.public)])
                          ELSE roots
              /\ Goto("recover", log)
              /\ UNCHANGED <<remote, pages, locals>>

\* aptly db recover: the database is rebuilt from the public files
Recovered(r) ==
    [r EXCEPT !.known = TRUE, !.comps = ParseComponents(r.public),
              !.pending = <<>>]

Recover ==
    /\ pc = "recover"
    /\ IF home.public.InRelease
       THEN \E rc \in RC :
              LET log == Append(cmds, Cmd("db recover", rc, TRUE)) IN
              IF rc # 0 /\ check("db recover") THEN Raise(log)
              ELSE /\ roots' = IF rc = 0 THEN SetHome(Recovered(home))
                               ELSE roots
                   /\ Goto("repo_create", log)
                   /\ UNCHANGED <<remote, pages, locals>>
       ELSE /\ Goto("repo_create", cmds)
            /\ UNCHANGED <<remote, roots, pages, locals>>

(***************************************************************************)
(* lines 218-240: staging repository and snapshot                           *)
(***************************************************************************)
HasRepo(r) == repo_name \in DOMAIN r.repos

RepoCreate ==
    /\ pc = "repo_create"
    /\ \E rc \in Codes(~HasRepo(home)) :
         LET log == Append(cmds, Cmd("repo create", rc, ~HasRepo(home))) IN
         IF rc # 0 /\ check("repo create") THEN Raise(log)
         ELSE /\ roots' = IF rc = 0
                          THEN SetHome([home EXCEPT !.repos =
                                          (repo_name :> {}) @@ home.repos])
                          ELSE roots
              /\ Goto("repo_add", log)
              /\ UNCHANGED <<remote, pages, locals>>

\* lines 225-236: the packages directory is examined here, after the
\* staging repository was created
RepoAdd ==
    /\ pc = "repo_add"
    /\ IF debs_dir # None
       THEN IF ~IsDir(debs_dir) THEN Exit1(cmds)
            ELSE IF Glob(debs_dir) = {} THEN Exit1(cmds)
            ELSE \E rc \in Codes(HasRepo(home)) :
                   LET log == Append(cmds, Cmd("repo add", rc, HasRepo(home))) IN
                   IF rc # 0 /\ check("repo add") THEN Raise(log)
                   ELSE /\ roots' = IF rc = 0
                                    THEN SetHome([home EXCEPT !.repos[repo_name] =
                                                    @ \cup Glob(debs_dir)])
                                    ELSE roots
                        /\ Goto("snapshot_create", log)
                        /\ UNCHANGED <<remote, pages, locals>>
       ELSE /\ Goto("snapshot_create", cmds)
            /\ UNCHANGED <<remote, roots, pages, locals>>

CanSnapshot(r) == HasRepo(r) /\ SnapName \notin DOMAIN r.snaps

SnapshotCreate ==
    /\ pc = "snapshot_create"
    /\ \E rc \in Codes(CanSnapshot(home)) :
         LET log == Append(cmds, [Cmd("snapshot create", rc, CanSnapshot(home))
                                   EXCEPT !.snap = SnapName]) IN
         IF rc # 0 /\ check("snapshot create") THEN Raise(log)
         ELSE /\ roots' = IF rc = 0
                          THEN SetHome([home EXCEPT !.snaps =
                                  (SnapName :> home.repos[repo_name]) @@ home.snaps])
                          ELSE roots
              /\ snap' = SnapName
              /\ Goto("publish_list", log)
              /\ UNCHANGED <<remote, pages, publication_exists,
                             our_publication_exists, existing_components>>

(***************************************************************************)
(* lines 252-285: inspect the publication state                             *)
(***************************************************************************)
PublishList ==
    /\ pc = "publish_list"
    /\ \E rc \in RC, rc2 \in RC :
         LET l1 == Append(cmds, Cmd("publish list -raw", rc, TRUE))
             log == IF rc = 0 THEN Append(l1, Cmd("publish list", rc2, TRUE))
                    ELSE l1
         IN
         /\ (rc # 0 => rc2 = 0)
         /\ IF rc # 0 /\ check("publish list -raw") THEN Raise(log)
            ELSE IF rc = 0 /\ rc2 # 0 /\ check("publish list") THEN Raise(log)
            ELSE /\ publication_exists' = (rc = 0)
                 /\ Goto("publish_show", log)
                 /\ UNCHANGED <<remote, roots, pages, snap,
                                our_publication_exists, existing_components>>

PublishShow ==
    /\ pc = "publish_show"
    /\ \E rc \in Codes(home.known) :
         LET log == Append(cmds, Cmd("publish show", rc, home.known)) IN
         IF rc # 0 /\ check("publish show") THEN Raise(log)
         ELSE /\ our_publication_exists' = (rc = 0)
              /\ existing_components' =
                    IF rc = 0 /\ home.public.InRelease
                    THEN ParseComponents(home.public)
                    ELSE {}
              /\ Goto("transition", log)
              /\ UNCHANGED <<remote, roots, pages, snap, publication_exists>>

(***************************************************************************)
(* lines 287-326: the transition                                            *)
(***************************************************************************)
\* the decision taken on the result of "publish list -raw" instead of
\* "publish show"
Transition_on_list ==
    IF publication_exists
    THEN IF self.component \in existing_components THEN "switch" ELSE "add"
    ELSE "snapshot"

\* the decision of lines 288, 289, 300 and 321
Transition ==
    IF our_publication_exists
    THEN IF self.component \in existing_components THEN "switch" ELSE "add"
    ELSE "snapshot"

\* sys.exit(1) also after a nonzero return of publish update
ExitOnFailure_update(name) ==
    name \in {"publish switch", "publish add", "publish update"}

\* lines 296-298 and 307-309: sys.exit(1) after a nonzero return code
ExitOnFailure(name) == name \in {"publish switch", "publish add"}

\* the options of the three publish calls (lines 293, 305, 314, 324)
switch_opts == [force |-> TRUE, sign |-> sign_opts]
add_opts == [force |-> FALSE, sign |-> <<>>]
\* publish update called without the signing options
update_opts_unsigned == [force |-> FALSE, sign |-> <<>>]
update_opts == [force |-> FALSE, sign |-> sign_opts]
snapshot_opts == [force |-> TRUE, sign |-> sign_opts]

HasSnap(r) == snap \in DOMAIN r.snaps

CanSwitch(r) == r.known /\ self.component \in r.comps /\ HasSnap(r)

\* a switch that republishes the publication with the one component
Switched_whole(r) ==
    [r EXCEPT !.public.InRelease = TRUE,
              !.public.pkgs = self.component :> r.snaps[snap]]

\* aptly publish switch -component c: the package set of c is replaced,
\* the other components stay
Switched(r) ==
    [r EXCEPT !.public.InRelease = TRUE,
              !.public.pkgs = (self.component :> r.snaps[snap]) @@ @]

\* aptly publish add: the component is staged in the database
CanAdd(r) == r.known /\ self.component \notin r.comps /\ HasSnap(r)
Added(r) ==
    [r EXCEPT !.comps = @ \cup {self.component},
              !.pending = (self.component :> r.snaps[snap]) @@ @]

\* aptly publish update: the release index is regenerated with the staged
\* components
CanUpdate(r) == r.known
Updated(r) ==
    [r EXCEPT !.public.InRelease = TRUE,
              !.public.pkgs = r.pending @@ @,
              !.pending = <<>>]

\* aptly publish snapshot: a new publication with the one component
CanPublish(r) == ~r.known /\ HasSnap(r)
Published(r) ==
    [r EXCEPT !.known = TRUE, !.comps = {self.component}, !.pending = <<>>,
              !.public.InRelease = TRUE,
              !.public.pkgs = self.component :> r.snaps[snap]]

PublishSwitch ==
    /\ pc = "transition"
    /\ Transition = "switch"
    /\ \E rc \in Codes(CanSwitch(home)) :
         LET log == Append(cmds, PublishCmd("publish switch", self.component,
                                snap, switch_opts.force, switch_opts.sign,
                                rc, CanSwitch(home))) IN
         IF rc # 0 /\ check("publish switch") THEN Raise(log)
         ELSE IF rc # 0 /\ ExitOnFailure("publish switch") THEN Exit1(log)
         ELSE /\ roots' = IF rc = 0 THEN SetHome(Switched(home)) ELSE roots
              /\ Goto("sync_back", log)
              /\ UNCHANGED <<remote, pages, locals>>

PublishAdd ==
    /\ pc = "transition"
    /\ Transition = "add"
    /\ \E rc \in Codes(CanAdd(home)) :
         LET log == Append(cmds, PublishCmd("publish add", self.component,
                                snap, add_opts.force, add_opts.sign,
                                rc, CanAdd(home))) IN
         IF rc # 0 /\ check("publish add") THEN Raise(log)
         ELSE IF rc # 0 /\ ExitOnFailure("publish add") THEN Exit1(log)
         ELSE /\ roots' = IF rc = 0 THEN SetHome(Added(home)) ELSE roots
              /\ Goto("publish_update", log)
              /\ UNCHANGED <<remote, pages, locals>>

PublishUpdate ==
    /\ pc = "publish_update"
    /\ \E rc \in Codes(CanUpdate(home)) :
         LET log == Append(cmds, PublishCmd("publish update", <<>>, <<>>,
                                update_opts.force, update_opts.sign,
                                rc, CanUpdate(home))) IN
         IF rc # 0 /\ check("publish update") THEN Raise(log)
         ELSE IF rc # 0 /\ ExitOnFailure("publish update") THEN Exit1(log)
         ELSE /\ roots' = IF rc = 0 THEN SetHome(Updated(home)) ELSE roots
              /\ Goto("sync_back", log)
              /\ UNCHANGED <<remote, pages, locals>>

PublishSnapshot ==
    /\ pc = "transition"
    /\ Transition = "snapshot"
    /\ \E rc \in Codes(CanPublish(home)) :
         LET log == Append(cmds, PublishCmd("publish snapshot", self.component,
                                snap, snapshot_opts.force, snapshot_opts.sign,
                                rc, CanPublish(home))) IN
         IF rc # 0 /\ check("publish snapshot") THEN Raise(log)
         ELSE IF rc # 0 /\ ExitOnFailure("publish snapshot") THEN Exit1(log)
         ELSE /\ roots' = IF rc = 0 THEN SetHome(Published(home)) ELSE roots
              /\ Goto("sync_back", log)
              /\ UNCHANGED <<remote, pages, locals>>

(***************************************************************************)
(* lines 328-343: sync back, commit, push                                   *)
(***************************************************************************)
\* rsync -a --delete public/ pages/, then .nojekyll is written
Mirror(public) == [public EXCEPT !.nojekyll = TRUE]

SyncBack ==
    /\ pc = "sync_back"
    /\ \E rc \in RC :
         LET log == Append(cmds, Cmd("rsync --delete", rc, TRUE)) IN
         IF rc # 0 /\ check("rsync --delete") THEN Raise(log)
         ELSE /\ pages' = IF rc = 0
                          THEN [pages EXCEPT !.tree = Mirror(home.public)]
                          ELSE pages
              /\ Goto("git_add", log)
              /\ UNCHANGED <<remote, roots, locals>>

GitAdd ==
    /\ pc = "git_add"
    /\ \E rc \in RC :
         LET log == Append(cmds, Cmd("git add", rc, TRUE)) IN
         IF rc # 0 /\ check("git add") THEN Raise(log)
         ELSE /\ Goto("git_commit", log)
              /\ UNCHANGED <<remote, roots, pages, locals>>

\* the commit fails when nothing changed; the failure is ignored
CanCommit == pages.orphan \/ pages.tree # cloned_tree

GitCommit ==
    /\ pc = "git_commit"
    /\ \E rc \in Codes(CanCommit) :
         LET log == Append(cmds, Cmd("git commit", rc, CanCommit)) IN
         IF rc # 0 /\ check("git commit") THEN Raise(log)
         ELSE /\ pages' = IF rc = 0 THEN [pages EXCEPT !.committed = TRUE]
                          ELSE pages
              /\ Goto("git_push", log)
              /\ UNCHANGED <<remote, roots, locals>>

\* git push origin branch: an orphan branch can only create the branch
CanPush == pages.orphan => (pages.committed /\ ~remote.branch)

Pushed == IF pages.committed THEN [branch |-> TRUE, tree |-> pages.tree]
          ELSE remote

GitPush ==
    /\ pc = "git_push"
    /\ \E rc \in Codes(CanPush) :
         LET log == Append(cmds, Cmd("git push", rc, CanPush)) IN
         IF rc # 0 /\ check("git push") THEN Raise(log)
         ELSE /\ End("returned", log, roots, IF rc = 0 THEN Pushed ELSE remote)
              /\ UNCHANGED <<args, locals, cloned_tree, run, before>>

(***************************************************************************)
(* the same command line is run again                                       *)
(***************************************************************************)
\* what the invocation that just ended did to the published branch
Outcome ==
    [ok |-> result = "returned" /\ Clean(cmds),
     changed |-> ParseComponents(remote.tree) # ParseComponents(before.tree),
     comps |-> ParseComponents(remote.tree)]

Rerun ==
    /\ pc = "done"
    /\ run < MaxRuns
    /\ run' = run + 1
    /\ pc' = "validate"
    /\ cmds' = <<>>
    /\ result' = None
    /\ snap' = <<>>
    /\ publication_exists' = FALSE
    /\ our_publication_exists' = FALSE
    /\ existing_components' = {}
    /\ cloned_tree' = EmptyTree
    /\ before' = [tree |-> remote.tree, known |-> home.known,
                  public |-> home.public.InRelease]
    /\ prev' = Outcome
    /\ UNCHANGED <<args, remote, roots, pages, aptly_cfg, exists>>
    /\ UNCHANGED beside_publish

Next ==
    \/ Validate
    \/ Configure
    \/ Clone
    \/ CloneDefault
    \/ CheckoutOrphan
    \/ GitRm
    \/ Seed
    \/ Recover
    \/ RepoCreate
    \/ RepoAdd
    \/ SnapshotCreate
    \/ PublishList
    \/ PublishShow
    \/ PublishSwitch
    \/ PublishAdd
    \/ PublishUpdate
    \/ PublishSnapshot
    \/ SyncBack
    \/ GitAdd
    \/ GitCommit
    \/ GitPush
    \/ Rerun

Spec == Init /\ [][Next]_vars

(***************************************************************************)
(* The same operation over the command lines that configure the workspace:  *)
(* every combination of --aptly-config and --aptly-root                     *)
(***************************************************************************)
InitWorkspace ==
    /\ ConcurrentIdle
    /\ NormalizeIdle
    /\ CleanerIdle
    /\ CliIdle
    /\ ScriptIdle
    /\ \E raw \in RawComponents, c \in ConfigArgs, r \in RootArgs :
          self = [component |-> _normalize_component(raw),
                  sign |-> FALSE, keyid |-> None, passphrase |-> None,
                  aptly_root |-> r, aptly_config |-> c]
    /\ debs_dir \in {None, "debs"}
    /\ path = Tools
    /\ \E b \in BOOLEAN, t \in InitialTrees :
          /\ (~b => t = EmptyTree)
          /\ remote = [branch |-> b, tree |-> t]
    /\ roots = [h \in RootDirs |-> FreshRoot]
    /\ pages = NoClone
    /\ pc = "validate"
    /\ cmds = <<>>
    /\ result = None
    /\ snap = <<>>
    /\ publication_exists = FALSE
    /\ our_publication_exists = FALSE
    /\ existing_components = {}
    /\ run = 1
    /\ cloned_tree = EmptyTree
    /\ before = [tree |-> remote.tree, known |-> FALSE, public |-> FALSE]
    /\ prev = NoRun
    /\ aptly_cfg = NoCfg
    /\ exists = {}

SpecWorkspace == InitWorkspace /\ [][Next]_vars

(***************************************************************************)
(* Invocations that share the engine root given by --aptly-root and differ  *)
(* in their --debs argument                                                 *)
(***************************************************************************)
InitStaging ==
    /\ ConcurrentIdle
    /\ NormalizeIdle
    /\ CleanerIdle
    /\ CliIdle
    /\ ScriptIdle
    /\ \E raw \in RawComponents :
          self = [component |-> _normalize_component(raw),
                  sign |-> FALSE, keyid |-> None, passphrase |-> None,
                  aptly_root |-> "P", aptly_config |-> None]
    /\ debs_dir \in {None, "debs"}
    /\ path = Tools
    /\ \E b \in BOOLEAN, t \in InitialTrees :
          /\ (~b => t = EmptyTree)
          /\ remote = [branch |-> b, tree |-> t]
    /\ roots = [h \in RootDirs |-> FreshRoot]
    /\ pages = NoClone
    /\ pc = "validate"
    /\ cmds = <<>>
    /\ result = None
    /\ snap = <<>>
    /\ publication_exists = FALSE
    /\ our_publication_exists = FALSE
    /\ existing_components = {}
    /\ run = 1
    /\ cloned_tree = EmptyTree
    /\ before = [tree |-> remote.tree, known |-> FALSE, public |-> FALSE]
    /\ prev = NoRun
    /\ aptly_cfg = NoCfg
    /\ exists = {}

\* the next invocation, for the same component and engine root, with the
\* other --debs argument
RerunOther ==
    /\ pc = "done"
    /\ run < MaxRuns
    /\ run' = run + 1
    /\ debs_dir' = IF debs_dir = None THEN "debs" ELSE None
    /\ pc' = "validate"
    /\ cmds' = <<>>
    /\ result' = None
    /\ snap' = <<>>
    /\ publication_exists' = FALSE
    /\ our_publication_exists' = FALSE
    /\ existing_components' = {}
    /\ cloned_tree' = EmptyTree
    /\ before' = [tree |-> remote.tree, known |-> home.known,
                  public |-> home.public.InRelease]
    /\ prev' = Outcome
    /\ UNCHANGED <<self, path, remote, roots, pages, aptly_cfg, exists>>
    /\ UNCHANGED beside_publish

NextStaging ==
    \/ Next
    \/ RerunOther

SpecStaging == InitStaging /\ [][NextStaging]_vars

(***************************************************************************)
(* Two invocations at the same time against one published branch.  Each     *)
(* has its own temporary directories, so the invocations meet only at the   *)
(* clone (lines 178-185) and at the push (line 341); the steps of one        *)
(* invocation between them are local and taken as one step.                  *)
(***************************************************************************)
PublishIdle ==
    /\ self = [component |-> <<>>, sign |-> FALSE, keyid |-> None,
               passphrase |-> None, aptly_root |-> None,
               aptly_config |-> None]
    /\ debs_dir = None
    /\ path = Tools
    /\ remote = [branch |-> FALSE, tree |-> EmptyTree]
    /\ roots = [h \in RootDirs |-> FreshRoot]
    /\ pages = NoClone
    /\ pc = "done"
    /\ cmds = <<>>
    /\ result = None
    /\ snap = <<>>
    /\ publication_exists = FALSE
    /\ our_publication_exists = FALSE
    /\ existing_components = {}
    /\ run = MaxRuns
    /\ cloned_tree = EmptyTree
    /\ before = [tree |-> EmptyTree, known |-> FALSE, public |-> FALSE]
    /\ prev = NoRun
    /\ aptly_cfg = NoCfg
    /\ exists = {}

\* package sets the invocations publish
ConcurrentDebs == { {"p0"}, {"p1"} }

InitConcurrent ==
    /\ PublishIdle
    /\ NormalizeIdle
    /\ CleanerIdle
    /\ CliIdle
    /\ ScriptIdle
    /\ origin \in {NoOrigin} \cup
                  { [branch |-> TRUE, head |-> BaseCommit, tree |-> t] :
                        t \in InitialTrees }
    /\ inv \in [Procs -> { Starting(_normalize_component(raw), d) :
                              raw \in RawComponents, d \in ConcurrentDebs }]

\* the invocation ends
Ended(i, res) == [i EXCEPT !.pc = "done", !.result = res]

\* lines 180-185: clone the branch; when that fails, clone the default
\* branch and create the branch as an orphan
ConcClone(p) ==
    /\ inv[p].pc = "clone"
    /\ \E rc \in Codes(origin.branch), rc2 \in RC :
          /\ (rc = 0 => rc2 = 0)
          /\ inv' = [inv EXCEPT ![p] =
                IF rc = 0
                THEN [@ EXCEPT !.pc = "publish", !.cloned = TRUE,
                               !.base = origin.head, !.head = origin.head,
                               !.tree = origin.tree,
                               !.cloned_tree = origin.tree,
                               !.clones = @ + 1]
                ELSE IF rc2 # 0
                THEN Ended([@ EXCEPT !.clones = @ + 1], "CalledProcessError")
                ELSE [@ EXCEPT !.pc = "publish", !.cloned = TRUE,
                               !.base = NoCommit, !.head = NoCommit,
                               !.tree = DefaultBranchTree,
                               !.cloned_tree = DefaultBranchTree,
                               !.clones = @ + 1]]
    /\ UNCHANGED <<origin, beside_concurrent>>

\* the tree after seed, staging, transition and sync back (lines 203-331)
\* in a fresh engine root when every command succeeds: the component holds
\* the staged packages, the other components are those of the cloned tree
Build(tree, c, d) ==
    [InRelease |-> TRUE, pkgs |-> (c :> d) @@ tree.pkgs, nojekyll |-> TRUE]

ConcPublish(p) ==
    /\ inv[p].pc = "publish"
    /\ \E ok \in BOOLEAN :
          inv' = [inv EXCEPT ![p] =
                IF ok
                THEN [@ EXCEPT !.pc = "commit",
                               !.tree = Build(@, inv[p].component, inv[p].debs)]
                ELSE Ended(@, "CalledProcessError")]
    /\ UNCHANGED <<origin, beside_concurrent>>

\* the commit fails when nothing changed; an orphan branch has no commit
CanCommitOf(p) ==
    inv[p].base = NoCommit \/ inv[p].tree # inv[p].cloned_tree

\* lines 333-340: git add, then git commit under check=False
ConcCommit(p) ==
    /\ inv[p].pc = "commit"
    /\ \E rc \in Codes(CanCommitOf(p)) :
          inv' = [inv EXCEPT ![p] =
              [@ EXCEPT !.pc = "push",
                        !.head = IF rc = 0 THEN CommitOf(p) ELSE @]]
    /\ UNCHANGED <<origin, beside_concurrent>>

\* a push that overwrites the head of the branch
CanPushTo_forced(p) == inv[p].head # NoCommit

\* git push origin branch is accepted when the head of the branch is the
\* commit the invocation started from
CanPushTo(p) == inv[p].head # NoCommit /\ origin.head = inv[p].base

\* line 341: one push under check=True
ConcPush(p) ==
    /\ inv[p].pc = "push"
    /\ \E rc \in Codes(CanPushTo(p)) :
          /\ inv' = [inv EXCEPT ![p] =
                Ended([@ EXCEPT !.pushes = @ + 1, !.push_rc = rc],
                      IF rc = 0 THEN "returned" ELSE "CalledProcessError")]
          /\ origin' = IF rc = 0
                        THEN [branch |-> TRUE, head |-> inv[p].head,
                              tree |-> inv[p].tree]
                        ELSE origin
    /\ UNCHANGED beside_concurrent

NextConcurrent ==
    \/ \E p \in Procs : ConcClone(p)
    \/ \E p \in Procs : ConcPublish(p)
    \/ \E p \in Procs : ConcCommit(p)
    \/ \E p \in Procs : ConcPush(p)

SpecConcurrent == InitConcurrent /\ [][NextConcurrent]_vars

(***************************************************************************)
(* Component normalization (publisher.py 69-74, scripts/aptly_publish.py    *)
(* 51-54) called on a string, and called again on the value it returned      *)
(***************************************************************************)
InitNormalize ==
    /\ PublishIdle
    /\ ConcurrentIdle
    /\ CleanerIdle
    /\ CliIdle
    /\ ScriptIdle
    /\ norm \in { Called(s) : s \in Strings(MaxLen) }

\* self.component = self._normalize_component(component)
Normalize ==
    /\ norm.calls = 0
    /\ norm' = [norm EXCEPT !.calls = 1, !.once = _normalize_component(norm.s)]
    /\ UNCHANGED beside_normalize

\* the value returned is normalized again
NormalizeAgain ==
    /\ norm.calls = 1
    /\ norm' = [norm EXCEPT !.calls = 2,
                             !.twice = _normalize_component(norm.once)]
    /\ UNCHANGED beside_normalize

NextNormalize ==
    \/ Normalize
    \/ NormalizeAgain

SpecNormalize == InitNormalize /\ [][NextNormalize]_vars

(***************************************************************************)
(* Retention cleaner (cleaner.py) behind the cleanup command (cli.py        *)
(* cmd_cleanup): scan the pools, find the candidates, delete them            *)
(***************************************************************************)
\* code points of the characters of the version strings
Ord(ch) ==
    CASE ch = "." -> 46
      [] ch = "0" -> 48
      [] ch = "1" -> 49
      [] ch = "9" -> 57
      [] ch = "c" -> 99
      [] ch = "r" -> 114
      [] ch = "~" -> 126

IsDigit(ch) == ch \in {"0", "1", "9"}

DigitValue(ch) == Ord(ch) - 48

\* v1 < v2 on Python strings: the first differing code point decides, a
\* proper prefix is smaller
RECURSIVE StrLess(_, _)
StrLess(v1, v2) ==
    IF v2 = <<>> THEN FALSE
    ELSE IF v1 = <<>> THEN TRUE
    ELSE IF Head(v1) # Head(v2) THEN Ord(Head(v1)) < Ord(Head(v2))
    ELSE StrLess(Tail(v1), Tail(v2))

\* dpkg --compare-versions, the order of one character outside a number:
\* the tilde sorts before everything, also before the end of the string
Order(v) ==
    IF v = <<>> \/ IsDigit(Head(v)) THEN 0
    ELSE IF Head(v) = "~" THEN -1
    ELSE IF Head(v) \in {"c", "r"} THEN Ord(Head(v))
    ELSE Ord(Head(v)) + 256

\* the number a string starts with, and the rest after it
RECURSIVE LeadingNumber(_, _)
LeadingNumber(v, acc) ==
    IF v # <<>> /\ IsDigit(Head(v))
    THEN LeadingNumber(Tail(v), 10 * acc + DigitValue(Head(v)))
    ELSE [value |-> acc, rest |-> v]

\* dpkg --compare-versions: negative, zero or positive as v1 is earlier
\* than, equal to or later than v2 (no epoch and no revision in the model)
RECURSIVE VerCmp(_, _)
VerCmp(v1, v2) ==
    IF v1 = <<>> /\ v2 = <<>> THEN 0
    ELSE IF (v1 # <<>> /\ ~IsDigit(Head(v1))) \/ (v2 # <<>> /\ ~IsDigit(Head(v2)))
    THEN IF Order(v1) # Order(v2) THEN Order(v1) - Order(v2)
         ELSE VerCmp(Tail(v1), Tail(v2))
    ELSE LET n1 == LeadingNumber(v1, 0)
             n2 == LeadingNumber(v2, 0)
         IN IF n1.value # n2.value THEN n1.value - n2.value
            ELSE VerCmp(n1.rest, n2.rest)

\* the comparison of the strings also when dpkg is installed
compare_without_dpkg(v1, v2, dpkg) ==
    IF StrLess(v1, v2) THEN -1 ELSE IF StrLess(v2, v1) THEN 1 ELSE 0

\* DebianVersionCompare.compare: dpkg when it is installed, else the
\* comparison of the strings
compare(v1, v2, dpkg) ==
    IF dpkg
    THEN IF VerCmp(v1, v2) < 0 THEN -1 ELSE IF VerCmp(v1, v2) > 0 THEN 1 ELSE 0
    ELSE IF StrLess(v1, v2) THEN -1 ELSE IF StrLess(v2, v1) THEN 1 ELSE 0

\* the version strings of the model
V_rc == <<"1", ".", "0", "~", "r", "c", "1">>
V_9  == <<"1", ".", "9">>
V_10 == <<"1", ".", "1", "0">>

\* PRERELEASE_PATTERNS searched in the version: of the patterns, "~rc\d*"
\* and "rc\d+" can match a version of the model
RECURSIVE is_prerelease(_)
is_prerelease(version) ==
    IF Len(version) < 2 THEN FALSE
    ELSE IF version[1] = "~" /\ Len(version) >= 3
              /\ version[2] = "r" /\ version[3] = "c" THEN TRUE
    ELSE IF version[1] = "r" /\ version[2] = "c" /\ Len(version) >= 3
              /\ IsDigit(version[3]) THEN TRUE
    ELSE is_prerelease(Tail(version))

(***************************************************************************)
(* The repository in the file system                                        *)
(***************************************************************************)
\* repo_path, and the pool directory of a package below it
repo_path == <<"repo">>
PoolDir(channel) == repo_path \o <<channel, "pool">>
PackageDir == PoolDir("testing") \o <<"main", "f", "foo">>

\* a file: its directory, its name as name_version_arch.ext (a name without
\* "_" has no version and no architecture), and the age of its
\* modification time in days
File(dir, name, version, arch, ext, age) ==
    [dir |-> dir, name |-> name, version |-> version, arch |-> arch,
     ext |-> ext, age |-> age]

Deb(version, arch, age) == File(PackageDir, "foo", version, arch, "deb", age)

\* a .deb file whose name has no version and no architecture
BadDeb == File(PackageDir, "notes", <<>>, "", "deb", 120)

\* the release index of the channel
ReleaseIndex ==
    File(repo_path \o <<"testing", "dists">>, "InRelease", <<>>, "", "", 120)

\* the path of a file
PathOf(f) ==
    [dir |-> f.dir, name |-> f.name, version |-> f.version, arch |-> f.arch,
     ext |-> f.ext]

\* path.parents
Parents(p) == { SubSeq(p, 1, k) : k \in 0..(Len(p) - 1) }

\* path.parent
Parent(p) == SubSeq(p, 1, Len(p) - 1)

\* the directories a set of files needs, with the repository root and the
\* directories above it
DirsOf(files) ==
    {repo_path} \cup Parents(repo_path) \cup
    UNION { {f.dir} \cup Parents(f.dir) : f \in files }

\* any(parent.iterdir())
NotEmpty(d, tree) ==
    \/ \E f \in tree.files : f.dir = d
    \/ \E e \in tree.dirs : e # <<>> /\ Parent(e) = d

(***************************************************************************)
(* Retention policy and the arguments of the cleanup command                *)
(***************************************************************************)
\* dict.get(key, default)
Get(d, key, default) == IF key \in DOMAIN d THEN d[key] ELSE default

\* an optional entry of a dictionary
Entry(key, given, value) == IF given THEN key :> value ELSE <<>>

\* the policies of the testing channel: every combination of the keys
\* keep_prereleases, max_versions and max_age_days, given or left out
ChannelPolicy ==
    { Entry("keep_prereleases", k # "", k = "true")
        @@ Entry("max_versions", mv >= 0, mv)
        @@ Entry("max_age_days", ma >= 0, ma) :
        k \in {"", "true", "false"}, mv \in {-1, 0, 2}, ma \in {-1, 120} }

\* channel_policies: no policy for the channel, or one of the above
ChannelPolicies == { <<>> } \cup { "testing" :> cp : cp \in ChannelPolicy }

\* what the policy protects: nothing, the component, the package
Protections ==
    { [protected_components |-> {}, protected_packages |-> {}],
      [protected_components |-> {"main"}, protected_packages |-> {}],
      [protected_components |-> {}, protected_packages |-> {"fo"}] }

RetentionPolicy ==
    { [prerelease_max_age_days |-> 90, max_versions_per_package |-> mv,
       channel_policies |-> cps,
       protected_components |-> pr.protected_components,
       protected_packages |-> pr.protected_packages] :
        mv \in {0, 1}, cps \in ChannelPolicies, pr \in Protections }

\* re.match(pattern, name): the pattern matches at the start of the name
Matches(pattern, name) == <<pattern, name>> \in { <<"fo", "foo">> }

\* the calls of the model: the cleanup command with the flags --dry-run and
\* --execute as given on the command line, and AptlyCleaner.cleanup called
\* with its default dry_run=True
CleanupCalls ==
    { [call |-> "cmd_cleanup", flags |-> f] :
        f \in { <<>>, <<"--execute">>, <<"--execute", "--dry-run">> } }
    \cup { [call |-> "cleanup", flags |-> <<>>] }

\* args.dry_run with the default turned to False
dry_run_default_false(flags) ==
    IF flags = <<>> THEN FALSE ELSE flags[Len(flags)] = "--dry-run"

\* args.dry_run (cli.py 493-504): True by default, --dry-run stores True,
\* --execute stores False, the last flag given decides
dry_run(flags) ==
    IF flags = <<>> THEN TRUE ELSE flags[Len(flags)] = "--dry-run"

\* the repositories of the model: the release candidate of age 90 or 120
\* days if present, any of two releases and of one build for another
\* architecture, and possibly one other file
Repositories ==
    { rc \cup rel \cup other :
        rc \in { {}, {Deb(V_rc, "amd64", 90)}, {Deb(V_rc, "amd64", 120)} },
        rel \in SUBSET { Deb(V_9, "amd64", 120), Deb(V_10, "amd64", 120),
                         Deb(V_9, "arm64", 120) },
        other \in { {}, {BadDeb}, {ReleaseIndex} } }

(***************************************************************************)
(* scan_packages and find_cleanup_candidates                                *)
(***************************************************************************)
\* parse_deb_filename: name_version_arch.deb
Parsed(f) == f.ext = "deb" /\ f.name # "" /\ f.version # <<>> /\ f.arch # ""

\* pool_dir.rglob("*.deb")
Under(dir, pool) == dir = pool \/ pool \in Parents(dir)

PackageInfo(f, channel) ==
    [name |-> f.name, version |-> f.version, arch |-> f.arch,
     path |-> PathOf(f), channel |-> channel,
     component |-> IF Len(f.dir) > Len(PoolDir(channel))
                   THEN f.dir[Len(PoolDir(channel)) + 1] ELSE f.name,
     age_days |-> f.age,
     is_prerelease |-> is_prerelease(f.version)]

Channels == {"stable", "testing", "pr"}

scan_packages(tree, channels) ==
    { PackageInfo(f, ch) :
        <<f, ch>> \in { x \in tree.files \X channels :
                          /\ PoolDir(x[2]) \in tree.dirs
                          /\ Under(x[1].dir, PoolDir(x[2]))
                          /\ x[1].ext = "deb"
                          /\ Parsed(x[1]) } }

\* the key of the group of a package
Key(p) == <<p.channel, p.component, p.name, p.arch>>

Group(packages, key) == { p \in packages : Key(p) = key }

\* the policy values of a group (cleaner.py 297-300)
PolicyOf(policy, key) ==
    LET channel_policy == Get(policy.channel_policies, key[1], <<>>) IN
    [keep_prereleases |-> Get(channel_policy, "keep_prereleases", TRUE),
     max_versions |-> Get(channel_policy, "max_versions",
                          policy.max_versions_per_package),
     max_age |-> Get(channel_policy, "max_age_days",
                     policy.prerelease_max_age_days)]

\* only the protected components skip a group
Protected_components_only(policy, key) ==
    key[2] \in policy.protected_components

\* cleaner.py 302-310: the group is skipped
Protected(policy, key) ==
    \/ key[2] \in policy.protected_components
    \/ \E pattern \in policy.protected_packages : Matches(pattern, key[3])

\* the pre-release candidates also when the age equals the maximum
OldPrereleases_inclusive(group, pol) ==
    IF ~pol.keep_prereleases
    THEN { p \in group : p.is_prerelease /\ p.age_days >= pol.max_age }
    ELSE {}

\* cleaner.py 313-316
OldPrereleases(group, pol) ==
    IF ~pol.keep_prereleases
    THEN { p \in group : p.is_prerelease /\ p.age_days > pol.max_age }
    ELSE {}

\* sort_versions(versions, reverse=True) and the packages of the versions:
\* the newest first
RECURSIVE SortedGroup(_, _)
SortedGroup(group, dpkg) ==
    IF group = {} THEN <<>>
    ELSE LET newest == CHOOSE p \in group :
                           \A q \in group :
                               compare(q.version, p.version, dpkg) <= 0
         IN <<newest>> \o SortedGroup(group \ {newest}, dpkg)

\* cleaner.py 322-335: sorted_group[max_versions:]
Excess(group, pol, dpkg) ==
    IF pol.max_versions > 0 /\ Cardinality(group) > pol.max_versions
    THEN LET sorted_group == SortedGroup(group, dpkg) IN
         { sorted_group[i] : i \in (pol.max_versions + 1)..Len(sorted_group) }
    ELSE {}

\* find_cleanup_candidates: (prerelease_candidates, version_limit_candidates)
find_cleanup_candidates(packages, policy, dpkg) ==
    LET keys == { Key(p) : p \in packages }
        open == { k \in keys : ~Protected(policy, k) }
        prerelease_candidates ==
            UNION { OldPrereleases(Group(packages, k), PolicyOf(policy, k)) :
                        k \in open }
        version_limit_candidates ==
            UNION { Excess(Group(packages, k), PolicyOf(policy, k), dpkg) :
                        k \in open } \ prerelease_candidates
    IN <<prerelease_candidates, version_limit_candidates>>

(***************************************************************************)
(* The cleanup command: cmd_cleanup (cli.py 53-139) and                      *)
(* AptlyCleaner.cleanup (cleaner.py 390-446)                                 *)
(***************************************************************************)
InitCleaner ==
    /\ PublishIdle
    /\ ConcurrentIdle
    /\ NormalizeIdle
    /\ CliIdle
    /\ ScriptIdle
    /\ \E files \in Repositories : fs = [files |-> files, dirs |-> DirsOf(files)]
    /\ \E policy \in RetentionPolicy, dpkg \in BOOLEAN, c \in CleanupCalls :
          cleaner = [policy |-> policy, dpkg |-> dpkg, call |-> c.call,
                     flags |-> c.flags]
    /\ cl = Entered(fs)

\* cli.py 96: packages = cleaner.scan_packages(channels)
Scan ==
    /\ cl.pc = "scan"
    /\ cl' = [cl EXCEPT !.pc = "find",
                        !.packages = scan_packages(fs, Channels)]
    /\ UNCHANGED <<fs, cleaner, beside_cleaner>>

\* cli.py 97 and 125-134: find the candidates; cleanup is called only when
\* args.dry_run is False, and never by cmd_analyze (cli.py 190-191)
FindCandidates ==
    /\ cl.pc = "find"
    /\ LET found == find_cleanup_candidates(cl.packages, cleaner.policy,
                                            cleaner.dpkg)
       IN cl' = [cl EXCEPT
                   !.pc = IF \/ cleaner.call = "cmd_analyze"
                             \/ cleaner.call = "cmd_cleanup" /\ dry_run(cleaner.flags)
                          THEN "done" ELSE "cleanup",
                   !.prerelease_candidates = found[1],
                   !.version_limit_candidates = found[2],
                   \* all_candidates = list(set(...)) (cleaner.py 407)
                   !.todo = found[1] \cup found[2]]
    /\ UNCHANGED <<fs, cleaner, beside_cleaner>>

\* the walk that stops only at the root of the file system
WalkOn_unbounded(parent) == parent # <<>>

\* cleaner.py 425: parent != self.repo_path and self.repo_path in
\* parent.parents
WalkOn(parent) == parent # repo_path /\ repo_path \in Parents(parent)

\* cleaner.py 424-434: remove the empty parent directories upwards
RECURSIVE Walk(_, _)
Walk(parent, tree) ==
    IF WalkOn(parent) /\ ~NotEmpty(parent, tree)
    THEN Walk(Parent(parent), [tree EXCEPT !.dirs = @ \ {parent}])
    ELSE tree

\* the dry_run argument of AptlyCleaner.cleanup
DryRunArg == IF cleaner.call = "cmd_cleanup" THEN FALSE ELSE TRUE

\* cleaner.py 412-438: one iteration of the loop over all_candidates
Delete ==
    /\ cl.pc = "cleanup"
    /\ \E pkg \in cl.todo :
         LET here == { f \in fs.files : PathOf(f) = pkg.path } IN
         IF DryRunArg
         THEN /\ cl' = [cl EXCEPT !.todo = @ \ {pkg},
                                  !.deleted = @ \cup {pkg.path}]
              /\ fs' = fs
         ELSE IF here = {}
         THEN /\ cl' = [cl EXCEPT !.todo = @ \ {pkg},
                                  !.failed = @ \cup {pkg.path}]
              /\ fs' = fs
         ELSE /\ cl' = [cl EXCEPT !.todo = @ \ {pkg},
                                  !.deleted = @ \cup {pkg.path}]
              /\ fs' = Walk(pkg.path.dir, [fs EXCEPT !.files = @ \ here])
    /\ UNCHANGED <<cleaner, beside_cleaner>>

\* cleaner.py 440-446: the loop is over, the report is returned
Report ==
    /\ cl.pc = "cleanup"
    /\ cl.todo = {}
    /\ cl' = [cl EXCEPT !.pc = "done"]
    /\ UNCHANGED <<fs, cleaner, beside_cleaner>>

NextCleaner ==
    \/ Scan
    \/ FindCandidates
    \/ Delete
    \/ Report

SpecCleaner == InitCleaner /\ [][NextCleaner]_vars

(***************************************************************************)
(* cleanup and analyze without a policy file: the policy built from the     *)
(* options (cli.py 62-86 and 151-173)                                       *)
(***************************************************************************)
\* the policy of cmd_cleanup and cmd_analyze when --policy is not given
PolicyFromArgs(max_versions, max_age_days, include_stable_prereleases) ==
    [prerelease_max_age_days |-> max_age_days,
     max_versions_per_package |-> max_versions,
     channel_policies |->
        [stable |-> [keep_prereleases |-> ~include_stable_prereleases,
                     max_versions |-> 0],
         testing |-> [keep_prereleases |-> FALSE,
                      max_versions |->
                          IF max_versions > 0 THEN max_versions ELSE 5],
         pr |-> [keep_prereleases |-> FALSE,
                 max_versions |->
                     IF max_versions > 0 THEN max_versions ELSE 3,
                 max_age_days |-> 30]],
     protected_components |-> {},
     protected_packages |-> {}]

\* --max-versions: the default 0, or 2
MaxVersionsArgs == {0, 2}

V_11 == <<"1", ".", "1", "1">>

\* a package file in the pool of a channel
DebIn(channel, version, age) ==
    File(PoolDir(channel) \o <<"main", "f", "foo">>, "foo", version, "amd64",
         "deb", age)

\* the repositories of the model: up to four versions of one package in
\* the pool of one channel, the release candidate 10 or 120 days old
ChannelRepositories ==
    { rc \cup rel :
        rc \in UNION { { {}, {DebIn(ch, V_rc, 10)}, {DebIn(ch, V_rc, 120)} } :
                         ch \in {"stable", "testing", "pr"} },
        rel \in UNION { SUBSET { DebIn(ch, V_9, 120), DebIn(ch, V_10, 120),
                                  DebIn(ch, V_11, 120) } :
                          ch \in {"stable", "testing", "pr"} } }

\* the commands of the model
RetentionCalls ==
    { [call |-> "cmd_cleanup", flags |-> f] : f \in { <<>>, <<"--execute">> } }
    \cup { [call |-> "cmd_analyze", flags |-> <<>>] }

InitRetention ==
    /\ PublishIdle
    /\ ConcurrentIdle
    /\ NormalizeIdle
    /\ CliIdle
    /\ ScriptIdle
    /\ \E files \in ChannelRepositories :
          fs = [files |-> files, dirs |-> DirsOf(files)]
    /\ \E mv \in MaxVersionsArgs, stable \in BOOLEAN, dpkg \in BOOLEAN,
          c \in RetentionCalls :
          cleaner = [policy |-> PolicyFromArgs(mv, 90, stable), dpkg |-> dpkg,
                     call |-> c.call, flags |-> c.flags]
    /\ cl = Entered(fs)

SpecRetention == InitRetention /\ [][NextCleaner]_vars

(***************************************************************************)
(* The command line (cli.py main) and its publish command (cmd_publish)     *)
(***************************************************************************)
\* the parameters of AptlyPublisher.__init__ (publisher.py 20-33)
InitParams ==
    {"component", "distro", "channel", "pages_repo", "branch", "sign",
     "keyid", "passphrase", "aptly_config", "aptly_root", "verbose"}

\* the keyword arguments cmd_publish passes to AptlyPublisher (cli.py 26-39)
Kwargs ==
    {"component", "distro", "channel", "pages_repo", "branch", "sign",
     "keyid", "passphrase", "aptly_config", "aptly_root", "verbose",
     "auto_bump"}

\* a call with a keyword argument the function does not have raises
\* TypeError
Call(kwargs, params) == IF kwargs \subseteq params THEN None ELSE "TypeError"

\* the subcommands (cli.py 443-633); None: no subcommand, the legacy form
Commands == {None, "publish", "cleanup", "analyze", "init-policy"}

\* set_defaults(func=...) of each subparser (cli.py 463, 543, 621, 633)
FuncOf(command) ==
    CASE command = "publish" -> "cmd_publish"
      [] command = "cleanup" -> "cmd_cleanup"
      [] command = "analyze" -> "cmd_analyze"
      [] command = "init-policy" -> "cmd_init_policy"

\* the command lines of the model: the subcommand, --component given before
\* the subcommand (top) or after "publish" (sub), and the publish options;
\* the required options of cleanup and analyze (--repo-path) are given
PublishArgs ==
    { a \in [command : Commands, top_component : BOOLEAN,
             sub_component : BOOLEAN, sign : BOOLEAN, keyid : {None, "K"},
             debs : DebsArgs, verbose : BOOLEAN, auto_bump : BOOLEAN] :
        a.sub_component => a.command = "publish" }

\* the required options of the top-level parser that were not given:
\* add_publish_arguments(parser) makes --component required there
\* (cli.py 335-341, 635-637)
Required(a) == IF a.top_component THEN {} ELSE {"--component"}

\* the arguments pass every validation of the command and of publish()
ValidArgs(a) == ~(a.sign /\ a.keyid = None) /\ a.debs \notin {"missing", "empty"}

InitCli ==
    /\ PublishIdle
    /\ ConcurrentIdle
    /\ NormalizeIdle
    /\ CleanerIdle
    /\ ScriptIdle
    /\ \E a \in PublishArgs : cli = Parsed_args(a)

\* parser.parse_args() and the dispatch (cli.py 639-653): argparse ends the
\* process with status 2 when a required option of the subparser or of the
\* top-level parser is missing
CliParse ==
    /\ cli.pc = "parse"
    /\ LET a == cli.args IN
       cli' = IF a.command = "publish" /\ ~a.sub_component
              THEN [cli EXCEPT !.pc = "done", !.exit = 2]
              ELSE IF Required(a) # {}
              THEN [cli EXCEPT !.pc = "done", !.exit = 2]
              ELSE IF a.command = None
              THEN IF a.top_component
                   THEN [cli EXCEPT !.pc = "validate", !.func = "cmd_publish"]
                   ELSE [cli EXCEPT !.pc = "done", !.exit = 0]
              ELSE [cli EXCEPT !.pc = IF a.command = "publish"
                                      THEN "validate" ELSE "handler",
                               !.func = FuncOf(a.command)]
    /\ UNCHANGED beside_cli

\* cmd_cleanup, cmd_analyze or cmd_init_policy runs and returns
CliHandler ==
    /\ cli.pc = "handler"
    /\ cli' = [cli EXCEPT !.pc = "done", !.exit = 0]
    /\ UNCHANGED beside_cli

\* cli.py 21-23: --sign without --keyid
CliValidate ==
    /\ cli.pc = "validate"
    /\ cli' = IF cli.args.sign /\ cli.args.keyid = None
              THEN [cli EXCEPT !.pc = "done", !.exit = 1]
              ELSE [cli EXCEPT !.pc = "try"]
    /\ UNCHANGED beside_cli

\* cli.py 25-41: the try block, the constructor call and then publish()
\* with every external command succeeding; sys.exit(1) of publish() is
\* not an Exception and ends the process
CliTry ==
    /\ cli.pc = "try"
    /\ LET raised == Call(Kwargs, InitParams) IN
       cli' = IF raised # None
              THEN [cli EXCEPT !.pc = "except", !.exc = raised]
              ELSE IF cli.args.debs \in {"missing", "empty"}
              THEN [cli EXCEPT !.pc = "done", !.exit = 1]
              ELSE [cli EXCEPT !.pc = "done", !.exit = 0, !.pushed = TRUE]
    /\ UNCHANGED beside_cli

\* cli.py 46-50: except Exception prints the error, then re-raises it in
\* verbose mode (the interpreter ends with the traceback and status 1) or
\* calls sys.exit(1)
CliExcept ==
    /\ cli.pc = "except"
    /\ cli' = [cli EXCEPT !.pc = "done", !.exit = 1,
                          !.traceback = cli.args.verbose]
    /\ UNCHANGED beside_cli

NextCli ==
    \/ CliParse
    \/ CliHandler
    \/ CliValidate
    \/ CliTry
    \/ CliExcept

SpecCli == InitCli /\ [][NextCli]_vars

(***************************************************************************)
(* The standalone script (scripts/aptly_publish.py), from the transition    *)
(* to the push (lines 202-259)                                              *)
(***************************************************************************)
\* --component values of the model: a published component, another
\* published component, a new one
ScriptComponents == {CompA, CompB, <<"c">>}

\* the packages of the snapshot created at line 200
ScriptSnap == {"p1"}

InitScript ==
    /\ PublishIdle
    /\ ConcurrentIdle
    /\ NormalizeIdle
    /\ CleanerIdle
    /\ CliIdle
    /\ \E c \in ScriptComponents, known \in BOOLEAN, staged \in BOOLEAN,
          t \in InitialTrees :
          \* a component staged by an earlier invocation in a kept engine
          \* root is not in the release index yet
          /\ staged => (known /\ t.InRelease /\ c \notin DOMAIN t.pkgs)
          /\ script = Staged(c, known, staged, t)

\* the script that tries the switch whenever the publication exists
ScriptTransition_switch_first(public, component) ==
    IF ~public.InRelease THEN "publish snapshot" ELSE "publish switch"

\* lines 218-221: first_publish and component_exists, read from the files
\* of the seeded public root
first_publish(public) == ~public.InRelease
component_exists(public, component) == component \in DOMAIN public.pkgs

\* lines 223-231: the command the script starts the transition with
ScriptTransition(public, component) ==
    IF first_publish(public) THEN "publish snapshot"
    ELSE IF component_exists(public, component) THEN "publish switch"
    ELSE "publish source add"

\* the components the engine has in its database for the publication
ScriptComps ==
    IF script.known
    THEN DOMAIN script.public.pkgs
           \cup (IF script.staged THEN {script.component} ELSE {})
    ELSE {}

\* run(..., check=True) raised CalledProcessError
ScriptRaise(log) ==
    script' = [script EXCEPT !.pc = "done", !.cmds = log,
                             !.result = "CalledProcessError"]

ScriptLog(name, rc) == Append(script.cmds, [cmd |-> name, rc |-> rc])

ScriptDecide ==
    /\ script.pc = "decide"
    /\ script' = [script EXCEPT
                    !.pc = ScriptTransition(script.public, script.component)]
    /\ UNCHANGED beside_script

\* line 225
ScriptSnapshot ==
    /\ script.pc = "publish snapshot"
    /\ \E rc \in Codes(~script.known) :
         IF rc # 0 THEN ScriptRaise(ScriptLog("publish snapshot", rc))
         ELSE script' = [script EXCEPT
                           !.pc = "sync_back",
                           !.cmds = ScriptLog("publish snapshot", rc),
                           !.known = TRUE,
                           !.public.InRelease = TRUE,
                           !.public.pkgs = script.component :> ScriptSnap]
    /\ UNCHANGED beside_script

\* line 228: check=True, no fallback
ScriptSwitch ==
    /\ script.pc = "publish switch"
    /\ \E rc \in Codes(script.component \in ScriptComps) :
         IF rc # 0 THEN ScriptRaise(ScriptLog("publish switch", rc))
         ELSE script' = [script EXCEPT
                           !.pc = "sync_back",
                           !.cmds = ScriptLog("publish switch", rc),
                           !.public.pkgs = (script.component :> ScriptSnap) @@ @]
    /\ UNCHANGED beside_script

\* lines 232-233: publish source add with check=False
ScriptSourceAdd ==
    /\ script.pc = "publish source add"
    /\ \E rc \in Codes(script.known /\ script.component \notin ScriptComps) :
         script' = [script EXCEPT
                      !.pc = IF rc = 0 THEN "publish update"
                             ELSE "publish source replace",
                      !.cmds = ScriptLog("publish source add", rc),
                      !.staged = (script.staged \/ rc = 0)]
    /\ UNCHANGED beside_script

\* lines 234-237: the fallback of a failed add
ScriptSourceReplace ==
    /\ script.pc = "publish source replace"
    /\ \E rc \in Codes(script.component \in ScriptComps) :
         IF rc # 0 THEN ScriptRaise(ScriptLog("publish source replace", rc))
         ELSE script' = [script EXCEPT
                           !.pc = "publish update",
                           !.cmds = ScriptLog("publish source replace", rc),
                           !.staged = TRUE]
    /\ UNCHANGED beside_script

\* lines 239-247: publish update with check=True
ScriptUpdate ==
    /\ script.pc = "publish update"
    /\ \E rc \in Codes(script.known) :
         IF rc # 0 THEN ScriptRaise(ScriptLog("publish update", rc))
         ELSE script' = [script EXCEPT
                           !.pc = "sync_back",
                           !.cmds = ScriptLog("publish update", rc),
                           !.staged = FALSE,
                           !.public.pkgs =
                               IF script.staged
                               THEN (script.component :> ScriptSnap) @@ @
                               ELSE @]
    /\ UNCHANGED beside_script

\* lines 250-252
ScriptSyncBack ==
    /\ script.pc = "sync_back"
    /\ \E rc \in RC :
         IF rc # 0 THEN ScriptRaise(ScriptLog("rsync --delete", rc))
         ELSE script' = [script EXCEPT
                           !.pc = "git_add",
                           !.cmds = ScriptLog("rsync --delete", rc),
                           !.pages = Mirror(script.public)]
    /\ UNCHANGED beside_script

\* line 254
ScriptGitAdd ==
    /\ script.pc = "git_add"
    /\ \E rc \in RC :
         IF rc # 0 THEN ScriptRaise(ScriptLog("git add", rc))
         ELSE script' = [script EXCEPT !.pc = "git_commit",
                                       !.cmds = ScriptLog("git add", rc)]
    /\ UNCHANGED beside_script

\* lines 255-258: check=False
ScriptGitCommit ==
    /\ script.pc = "git_commit"
    /\ \E rc \in Codes(script.pages # script.remote) :
         script' = [script EXCEPT !.pc = "git_push",
                                  !.cmds = ScriptLog("git commit", rc),
                                  !.committed = (rc = 0)]
    /\ UNCHANGED beside_script

\* line 259
ScriptGitPush ==
    /\ script.pc = "git_push"
    /\ \E rc \in RC :
         IF rc # 0 THEN ScriptRaise(ScriptLog("git push", rc))
         ELSE script' = [script EXCEPT
                           !.pc = "done",
                           !.cmds = ScriptLog("git push", rc),
                           !.result = "returned",
                           !.remote = IF script.committed THEN script.pages
                                      ELSE @]
    /\ UNCHANGED beside_script

NextScript ==
    \/ ScriptDecide
    \/ ScriptSnapshot
    \/ ScriptSwitch
    \/ ScriptSourceAdd
    \/ ScriptSourceReplace
    \/ ScriptUpdate
    \/ ScriptSyncBack
    \/ ScriptGitAdd
    \/ ScriptGitCommit
    \/ ScriptGitPush

\* one invocation of the library class or one of the standalone script
InitEither == Init \/ InitScript

NextEither ==
    \/ Next
    \/ NextScript

SpecEither == InitEither /\ [][NextEither]_vars

(***************************************************************************)
(* Properties                                                               *)
(***************************************************************************)
Idx == 1..Len(cmds)

\* the publish subcommands that change the publication
MutatingPublish ==
    {"publish snapshot", "publish switch", "publish add", "publish update"}

IssuedCmd(name) == \E i \in Idx : cmds[i].cmd = name
Succeeded(name) == \E i \in Idx : cmds[i].cmd = name /\ cmds[i].rc = 0
FailedCmd(name) == \E i \in Idx : cmds[i].cmd = name /\ cmds[i].rc # 0

\* every publish subcommand issued so far that changes the publication is
\* "publish snapshot" for the normalized component
OnlyBootstrap ==
    \A i \in Idx :
        cmds[i].cmd \in MutatingPublish =>
            /\ cmds[i].cmd = "publish snapshot"
            /\ cmds[i].component = self.component
            /\ self.component \in {CompA, CompB}

\* C1 as stated: when the cloned tree has no published metadata for the
\* target, the only publish subcommand that changes the publication is
\* "publish snapshot" with the normalized component; add, switch and update
\* are never issued.
C1_AsStated == ~cloned_tree.InRelease => OnlyBootstrap

\* C1 amended: when neither the cloned tree nor the engine root used by the
\* invocation (its database and its public directory, as earlier
\* invocations left them) holds the publication, the only publish
\* subcommand that changes the publication is "publish snapshot" with the
\* normalized component.
C1_Bootstrap ==
    (~cloned_tree.InRelease /\ ~before.known /\ ~before.public)
        => OnlyBootstrap

C1_Witness ==
    /\ pc = "sync_back"
    /\ ~cloned_tree.InRelease
    /\ ~before.known /\ ~before.public
    /\ self.aptly_root = "P"
    /\ run = 2
    /\ Succeeded("publish snapshot")

\* the package sets of the components other than the target are those the
\* published branch held when the invocation started
SiblingsKept ==
    \A c \in DOMAIN before.tree.pkgs \ {self.component} :
        /\ c \in DOMAIN remote.tree.pkgs
        /\ remote.tree.pkgs[c] = before.tree.pkgs[c]

\* C2 as stated: when the publication exists in the cloned tree and lists
\* the target component, every publish subcommand issued that changes the
\* publication is "publish switch" for that component with forced
\* overwrite, and after the run the sibling components have the package
\* sets they had before the run.
C2_AsStated ==
    (cloned_tree.InRelease /\ self.component \in ParseComponents(cloned_tree))
        => /\ \A i \in Idx :
                cmds[i].cmd \in MutatingPublish =>
                    /\ cmds[i].cmd = "publish switch"
                    /\ cmds[i].component = self.component
                    /\ cmds[i].force
           /\ (pc = "done" => SiblingsKept)

\* C3 as stated: when the publication exists and the component is not in
\* the parsed list, "publish add" is issued, and a nonzero return of it
\* does not end the invocation.
C3_AsStated ==
    \A i \in Idx :
        (cmds[i].cmd = "publish add" /\ cmds[i].rc # 0) =>
            ~(pc = "done" /\ i = Len(cmds))

\* C4: when the same command line is run twice in succession and every
\* external command that can succeed does, the published component set
\* after the second run is the one after the first run.
C4_Idempotent ==
    (pc = "done" /\ run >= 2 /\ prev.ok /\ Clean(cmds))
        => ParseComponents(remote.tree) = prev.comps

C4_Witness ==
    /\ pc = "done" /\ run >= 2
    /\ prev.ok /\ prev.changed /\ Cardinality(prev.comps) = 2
    /\ result = "returned" /\ Clean(cmds)
    /\ Succeeded("publish switch")
    /\ Succeeded("git push")

\* C5 as stated: when the seeded tree has the InRelease file of the target,
\* the inspected state is exists = true with the components of its
\* "Components:" field, also when the engine does not know the publication.
C5_AsStated ==
    (pc = "transition" /\ home.public.InRelease)
        => /\ our_publication_exists
           /\ existing_components = ParseComponents(home.public)

\* the invocation ended right after command i with a nonzero exit status
EndsAt(i) ==
    /\ i = Len(cmds)
    /\ pc = "done"
    /\ result \in {"SystemExit", "CalledProcessError"}

Fatal(names) ==
    \A i \in Idx : (cmds[i].cmd \in names /\ cmds[i].rc # 0) => EndsAt(i)

FatalCommands ==
    {"repo add", "snapshot create", "publish snapshot", "publish switch",
     "publish add", "git clone", "rsync seed", "rsync --delete", "git add",
     "git push"}

\* C6 as stated: a nonzero return of repo create, repo add, snapshot
\* create, publish snapshot, publish switch, publish add, of the clone
\* without fallback, the seed sync, the sync back, git add or push ends the
\* invocation with a nonzero status and is the last command issued.
C6_AsStated == Fatal(FatalCommands \cup {"repo create"})

\* C6 amended: the same for every command of the list but repo create,
\* whose nonzero return is tolerated.
C6_FailFast == Fatal(FatalCommands)

C6_Witness ==
    /\ EndsAt(Len(cmds))
    /\ cmds # <<>>
    /\ cmds[Len(cmds)].cmd = "publish add"
    /\ result = "SystemExit"

SigningOk(o) ==
    IF self.sign
    THEN /\ self.keyid # None
         /\ Len(o) >= 2 /\ o[1] = "-gpg-key" /\ o[2] = self.keyid
         /\ IF self.passphrase # None
            THEN Len(o) = 4 /\ o[3] = "-passphrase" /\ o[4] = self.passphrase
            ELSE Len(o) = 2
    ELSE o = <<"-skip-signing">>

\* C8: every publish snapshot, publish switch and publish update issued
\* carries the signing options of the invocation; publish add carries none
\* and, when it succeeds, is followed by a publish update.
C8_Signing ==
    \A i \in Idx :
        /\ cmds[i].cmd \in {"publish snapshot", "publish switch",
                             "publish update"} => SigningOk(cmds[i].sign)
        /\ cmds[i].cmd = "publish add" =>
              /\ cmds[i].sign = <<>>
              /\ cmds[i].rc = 0 =>
                    IF i = Len(cmds) THEN pc = "publish_update"
                    ELSE cmds[i+1].cmd = "publish update"

C8_Witness ==
    /\ self.sign /\ self.passphrase # None
    /\ Succeeded("publish add")
    /\ IssuedCmd("publish update")

PublishSubcommands ==
    {"publish list -raw", "publish list", "publish show", "publish snapshot",
     "publish switch", "publish add", "publish update"}

\* the snapshot create commands of the invocation
Creates == { i \in Idx : cmds[i].cmd = "snapshot create" }

\* at most one snapshot create is issued; once a publish subcommand is
\* issued, exactly one snapshot was created before it, and publish snapshot,
\* switch and add name it
C9_State ==
    LET created == Creates IN
    /\ Cardinality(created) <= 1
    /\ \A i \in Idx :
          cmds[i].cmd \in PublishSubcommands =>
              /\ created # {}
              /\ \A j \in created :
                    /\ j < i
                    /\ cmds[j].rc = 0
                    /\ cmds[j].snap = snap
              /\ cmds[i].cmd \in {"publish snapshot", "publish switch",
                                   "publish add"} => cmds[i].snap = snap

\* a snapshot of the engine root keeps its package set
C9_Immutable ==
    \A n \in DOMAIN roots["P"].snaps :
        /\ n \in DOMAIN roots'["P"].snaps
        /\ roots'["P"].snaps[n] = roots["P"].snaps[n]

PreconditionFails ==
    \/ ~({"git", "rsync", "aptly"} \subseteq path)
    \/ self.sign /\ self.keyid = None
    \/ self.sign /\ "gpg" \notin path
    \/ debs_dir # None /\ (~IsDir(debs_dir) \/ Glob(debs_dir) = {})

StateChanging ==
    {"git clone -b", "git clone", "rsync seed", "db recover", "repo create"}

\* C10 as stated: when a precondition fails, no clone, no seeding, no
\* database recovery and no staging-repository creation is ever run.
C10_AsStated ==
    PreconditionFails => \A i \in Idx : cmds[i].cmd \notin StateChanging

\* the invocation is between the provisioning of the workspace and its end:
\* the positions from which the clone and every engine command are issued
Provisioned == pc \notin {"validate", "configure", "done"}

EngineCommands ==
    {"db recover", "repo create", "repo add", "snapshot create",
     "publish list -raw", "publish list", "publish show", "publish snapshot",
     "publish switch", "publish add", "publish update"}

\* C11 as stated: after the publish operation ended, on any path, neither
\* the cloned-tree directory nor the engine root used by the invocation
\* exists, also when the root is the one of --aptly-root or of the rootDir
\* of a supplied configuration.
C11_AsStated ==
    pc = "done" => ("pages" \notin exists /\ aptly_home \notin exists)

\* C11 amended: after the publish operation ended, on any path, the two
\* temporary directories (the cloned tree, and the workspace that holds the
\* written configuration and the default engine root) do not exist and the
\* default engine root is empty again; an engine root named by --aptly-root
\* or by the rootDir of a supplied configuration that the invocation
\* created or used still exists.
C11_Ephemeral ==
    pc = "done" =>
        /\ exists \cap TempDirs = {}
        /\ aptly_cfg = NoCfg
        /\ pages = NoClone
        /\ roots["tmp"] = FreshRoot
        /\ (cmds # <<>> /\ cmds[Len(cmds)].cmd # "command -v")
              => (aptly_home # "tmp" => aptly_home \in exists)

C11_Witness ==
    /\ pc = "done"
    /\ result = "CalledProcessError"
    /\ self.aptly_config = "relative" /\ self.aptly_root = None
    /\ Succeeded("publish snapshot")
    /\ exists = {"C"}

\* C12: when a supplied configuration has no rootDir and --aptly-root is not
\* given, the invocation ends with sys.exit(1) before any command other than
\* the tool validation is issued; otherwise, from the end of the
\* provisioning on (so before the first engine command), the written
\* configuration has an absolute rootDir, which is the override when one is
\* given, and that directory exists.
C12_Provisioner ==
    /\ (self.aptly_config = "norootdir" /\ self.aptly_root = None) =>
          /\ ~Provisioned
          /\ \A i \in Idx : cmds[i].cmd = "command -v"
          /\ pc = "done" => result = "SystemExit"
    /\ (\/ Provisioned
        \/ \E i \in Idx : cmds[i].cmd \in EngineCommands) =>
          /\ ~(self.aptly_config = "norootdir" /\ self.aptly_root = None)
          /\ Provisioned =>
                /\ aptly_cfg.rootDir.abs
                /\ aptly_cfg.rootDir.dir = aptly_home
                /\ self.aptly_root # None => aptly_cfg.rootDir.dir = self.aptly_root
                /\ aptly_home \in exists

C12_Witness ==
    /\ pc = "recover"
    /\ self.aptly_config = "relative" /\ self.aptly_root = "P"
    /\ aptly_cfg.rootDir = [dir |-> "P", abs |-> TRUE]
    /\ exists = {"pages", "tmp", "P"}

\* both invocations cloned, and started from the same commit
SameBase ==
    /\ \A p \in Procs : inv[p].cloned
    /\ inv[1].base = inv[2].base

\* the invocations whose push of a commit of their own was accepted
Winners ==
    { p \in Procs : /\ inv[p].pushes = 1
                      /\ inv[p].push_rc = 0
                      /\ inv[p].head = CommitOf(p) }

\* C13: each of two concurrent invocations clones at most once and pushes
\* at most once; an invocation whose push is rejected ends with a raised
\* error; when both started from the same commit, at most one push of a new
\* commit is accepted and the branch then holds exactly the head and the
\* tree of that invocation, else the branch is not changed.
C13_OnePush ==
    /\ \A p \in Procs :
          /\ inv[p].pushes <= 1
          /\ inv[p].clones <= 1
          /\ (inv[p].pushes = 1 /\ inv[p].push_rc # 0) =>
                (inv[p].pc = "done" /\ inv[p].result = "CalledProcessError")
    /\ SameBase =>
          /\ Cardinality(Winners) <= 1
          /\ \A p \in Winners :
                origin.head = CommitOf(p) /\ origin.tree = inv[p].tree
          /\ Winners = {} => origin.head \in {NoCommit, BaseCommit}

C13_Witness ==
    /\ SameBase
    /\ \A p \in Procs : inv[p].pc = "done" /\ inv[p].head = CommitOf(p)
    /\ inv[1].push_rc = 0 /\ inv[1].pushes = 1
    /\ inv[2].push_rc # 0 /\ inv[2].pushes = 1
    /\ inv[2].result = "CalledProcessError"
    /\ inv[1].tree # inv[2].tree
    /\ origin.tree = inv[1].tree

\* C14: normalization is idempotent: normalizing the value returned for s
\* returns it unchanged.
C14_Idempotent == norm.calls = 2 => norm.twice = norm.once

C14_Witness ==
    /\ norm.calls = 2
    /\ norm.s = <<"_", "A", "-">>
    /\ norm.once = <<"a">>
    /\ norm.twice = <<"a">>

\* a lowercase letter or a digit
LowerOrDigit(ch) == ch \in {"a", "b", "1"}

\* C15: for every input string the normalized component consists of
\* lowercase letters, digits and hyphens only, has no hyphen at its start
\* or end, and has no two adjacent hyphens.
C15_Shape ==
    norm.calls >= 1 =>
        LET n == norm.once IN
        /\ \A i \in 1..Len(n) : LowerOrDigit(n[i]) \/ n[i] = "-"
        /\ n # <<>> => (n[1] # "-" /\ n[Len(n)] # "-")
        /\ \A i \in 1..(Len(n) - 1) : ~(n[i] = "-" /\ n[i+1] = "-")

C15_Witness ==
    /\ norm.calls >= 1
    /\ norm.s = <<"A", "_", "-", "b">>
    /\ norm.once = <<"a", "-", "b">>

\* the clone of the target branch has failed because the branch does not
\* exist
OrphanRun ==
    \E i \in Idx :
        cmds[i].cmd = "git clone -b" /\ cmds[i].rc # 0 /\ cmds[i].forced

\* the command after the i-th is the named one; the operation stands at the
\* label when the i-th is the last
Follows(i, name, label) ==
    IF i = Len(cmds) THEN pc = label ELSE cmds[i + 1].cmd = name

\* what the operation does after the failed clone
OrphanSteps ==
    /\ \A i \in Idx :
          /\ (cmds[i].cmd = "git clone -b" /\ cmds[i].rc # 0)
                => Follows(i, "git clone", "clone_default")
          /\ (cmds[i].cmd = "git clone" /\ cmds[i].rc = 0)
                => Follows(i, "git checkout --orphan", "checkout_orphan")
          /\ (cmds[i].cmd = "git checkout --orphan" /\ cmds[i].rc = 0)
                => Follows(i, "git rm", "git_rm")
          /\ cmds[i].cmd = "git rm" => Follows(i, "rsync seed", "seed")
    /\ (pc = "seed" /\ Succeeded("git rm"))
          => (pages.orphan /\ pages.tree = EmptyTree)
    /\ pc = "recover" => ~home.public.InRelease
    /\ \A i \in Idx : cmds[i].cmd # "db recover"
    /\ OnlyBootstrap
    /\ (pc = "done" /\ result = "returned") =>
          /\ cmds[Len(cmds)].cmd = "git push" /\ cmds[Len(cmds)].rc = 0
          /\ Succeeded("publish snapshot")
          /\ remote.branch
          /\ remote.tree.InRelease

\* C30 as stated: when the clone of the target branch fails because the
\* branch does not exist, the operation clones the default branch, creates
\* the target branch as an orphan and empties its tree, seeds the public
\* root of the engine without published metadata, selects Bootstrap, and
\* its push creates the target branch.
C30_AsStated == OrphanRun => OrphanSteps

\* C30 amended: the same when the engine root of the invocation holds no
\* publication, in its database or in its public directory, as the
\* invocation starts.
C30_Orphan == (OrphanRun /\ ~before.known /\ ~before.public) => OrphanSteps

C30_Witness ==
    /\ pc = "done"
    /\ result = "returned"
    /\ OrphanRun
    /\ ~before.known /\ ~before.public
    /\ Succeeded("git clone")
    /\ Succeeded("git checkout --orphan")
    /\ Succeeded("git rm")
    /\ Succeeded("publish snapshot")
    /\ remote.branch /\ remote.tree.InRelease
    /\ before.tree = EmptyTree


\* the candidates found by the command, and their paths
Candidates == cl.prerelease_candidates \cup cl.version_limit_candidates
CandidatePaths == { p.path : p \in Candidates }

\* the command runs in dry-run mode: through the command line, args.dry_run
\* is True; called directly, the dry_run argument is True
DryMode ==
    IF cleaner.call = "cmd_cleanup" THEN dry_run(cleaner.flags) ELSE DryRunArg

Executing == cleaner.call = "cmd_cleanup" /\ ~dry_run(cleaner.flags)

Found == cl.pc \in {"cleanup", "done"}

Groups == { Key(p) : p \in cl.packages }

\* the packages of a group that have at least n later versions in the
\* group, by Debian version order
Oldest(group, n) ==
    { p \in group :
        Cardinality({ q \in group : VerCmp(q.version, p.version) > 0 }) >= n }

\* C18 as stated: for an effective max_versions N > 0 and a group of M > N
\* packages, the version-excess candidates of the group are exactly its
\* M - N oldest packages by Debian version order.
C18_AsStated ==
    Found =>
        \A k \in Groups :
            LET group == Group(cl.packages, k)
                N == PolicyOf(cleaner.policy, k).max_versions
            IN (N > 0 /\ Cardinality(group) > N) =>
                  cl.version_limit_candidates \cap group = Oldest(group, N)

\* C18 amended: with dpkg installed, for an effective max_versions N > 0
\* and an unprotected group of M > N packages, the M - N oldest packages by
\* Debian version order are exactly the packages the version limit selects:
\* each of them is a version-excess candidate unless it is a pre-release
\* candidate already, and none of the N newest is a version-excess
\* candidate.
C18_Excess ==
    Found =>
        \A k \in Groups :
            LET group == Group(cl.packages, k)
                N == PolicyOf(cleaner.policy, k).max_versions
            IN (/\ N > 0 /\ Cardinality(group) > N
                /\ cleaner.dpkg
                /\ ~Protected(cleaner.policy, k)) =>
                  /\ Cardinality(Oldest(group, N)) = Cardinality(group) - N
                  /\ cl.version_limit_candidates \cap group =
                        Oldest(group, N) \ cl.prerelease_candidates

C18_Witness ==
    /\ Found
    /\ cleaner.dpkg
    /\ \E k \in Groups :
          LET group == Group(cl.packages, k) IN
          /\ ~Protected(cleaner.policy, k)
          /\ Cardinality(group) = 3
          /\ PolicyOf(cleaner.policy, k).max_versions = 1
          /\ Cardinality(cl.version_limit_candidates \cap group) = 1
          /\ Cardinality(cl.prerelease_candidates \cap group) = 1

\* the package is protected by the policy of the command: its component is
\* one of protected_components or its name matches one of protected_packages
IsProtected(p) ==
    \/ p.component \in cleaner.policy.protected_components
    \/ \E pattern \in cleaner.policy.protected_packages :
          Matches(pattern, p.name)

\* C29: no package whose component is in protected_components and no
\* package whose name matches a protected_packages pattern is ever in the
\* pre-release candidates or in the version-excess candidates, whatever its
\* age, its version and the number of versions of its group; the command
\* deletes none of them.
C29_ProtectedKept ==
    /\ \A p \in Candidates \cup cl.todo : ~IsProtected(p)
    /\ \A p \in cl.packages :
          IsProtected(p) =>
              /\ p.path \notin cl.deleted
              /\ \E f \in fs.files : PathOf(f) = p.path

\* a protected package that is an old pre-release where pre-releases are
\* not kept, in a group with more versions than the limit, and the command
\* run with --execute has ended without a candidate
C29_Witness ==
    /\ cl.pc = "done"
    /\ Executing
    /\ cleaner.policy.protected_packages = {"fo"}
    /\ \E p \in cl.packages :
          LET pol == PolicyOf(cleaner.policy, Key(p))
              group == Group(cl.packages, Key(p))
          IN /\ IsProtected(p)
             /\ p.is_prerelease
             /\ ~pol.keep_prereleases
             /\ p.age_days > pol.max_age
             /\ pol.max_versions = 1
             /\ Cardinality(group) = 3
    /\ Candidates = {}
    /\ fs = cl.before

\* C19: a package is a pre-release candidate exactly when the policy of its
\* channel has keep_prereleases = false, the package is unprotected, its
\* version is a pre-release and its age in days is strictly greater than
\* the max_age_days of the channel or, without one, the
\* prerelease_max_age_days of the policy; a channel with keep_prereleases =
\* true or without policy has no pre-release candidate.
C19_Prerelease ==
    Found =>
        \A p \in cl.packages :
            LET policies == cleaner.policy.channel_policies
                given == p.channel \in DOMAIN policies
                cp == IF given THEN policies[p.channel] ELSE <<>>
                keep == IF "keep_prereleases" \in DOMAIN cp
                        THEN cp["keep_prereleases"] ELSE TRUE
                max_age == IF "max_age_days" \in DOMAIN cp
                           THEN cp["max_age_days"]
                           ELSE cleaner.policy.prerelease_max_age_days
            IN p \in cl.prerelease_candidates <=>
                  /\ given /\ ~keep
                  /\ ~Protected(cleaner.policy, Key(p))
                  /\ p.is_prerelease
                  /\ p.age_days > max_age

C19_Witness ==
    /\ Found
    /\ \E p \in cl.prerelease_candidates :
          /\ p.age_days = 120
          /\ cleaner.policy.prerelease_max_age_days = 90
          /\ "max_age_days" \notin DOMAIN cleaner.policy.channel_policies[p.channel]
    /\ cl.version_limit_candidates # {}

\* C20 as stated: a publish command with valid arguments, every external
\* command succeeding, ends with exit status 0 after the final push, and
\* exit status 1 is produced only for a validation error or a failed step.
C20_AsStated ==
    (cli.pc = "done" /\ cli.func = "cmd_publish") =>
        /\ ValidArgs(cli.args) => (cli.exit = 0 /\ cli.pushed)
        /\ cli.exit = 1 => ~ValidArgs(cli.args)

\* C21 as stated: with --max-versions 0 and no policy file, no package of
\* any channel is a version-excess candidate, whatever the number of
\* versions present.
C21_AsStated ==
    (Found /\ cleaner.policy.max_versions_per_package = 0) =>
        cl.version_limit_candidates = {}

\* the place of a command in the sequence of the steps of publish()
StepOf(name) ==
    CASE name = "command -v" -> 0
      [] name \in {"git clone -b", "git clone", "git checkout --orphan",
                   "git rm"} -> 1
      [] name = "rsync seed" -> 2
      [] name = "db recover" -> 3
      [] name = "repo create" -> 4
      [] name = "repo add" -> 5
      [] name = "snapshot create" -> 6
      [] name \in {"publish list -raw", "publish list", "publish show"} -> 7
      [] name \in {"publish switch", "publish add", "publish update",
                   "publish snapshot"} -> 8
      [] name = "rsync --delete" -> 9
      [] name = "git add" -> 10
      [] name = "git commit" -> 11
      [] name = "git push" -> 12

\* the steps made of one command
SingleSteps == {2, 3, 4, 5, 6, 9, 10, 11, 12}

\* C22: the commands of one invocation are issued in the order clone, seed,
\* staging-repository create, package add, snapshot create, state
\* inspection, transition, sync back, git add, commit, push, each of the
\* one-command steps at most once: the seed follows the clone, the
\* transition follows the state inspection, git add follows the sync back
\* completed with success, the commit follows git add and the push follows
\* the commit, so that the push is never issued before the sync back has
\* completed and the transition never before the state inspection.
C22_Order ==
    /\ \A i \in 1..(Len(cmds) - 1) :
          LET this == StepOf(cmds[i].cmd)
              next == StepOf(cmds[i + 1].cmd)
          IN /\ this <= next
             /\ this \in SingleSteps => this < next
             /\ next = 2 => this = 1
             /\ next = 8 => this \in {7, 8}
             /\ next = 10 => (this = 9 /\ cmds[i].rc = 0)
             /\ next = 11 => this = 10
             /\ next = 12 => this = 11
    /\ cmds # <<>> => StepOf(cmds[1].cmd) = 0

C22_Witness ==
    /\ pc = "done"
    /\ result = "returned"
    /\ { StepOf(cmds[i].cmd) : i \in Idx } = 0..12
    /\ cmds[Len(cmds)].cmd = "git push" /\ cmds[Len(cmds)].rc = 0

\* C23: when the release index of the publication is among the files the
\* engine's public root was seeded with, db recover has been issued before
\* the first query about publications, and a db recover that returned
\* nonzero is followed by the next command: it never ends the invocation.
C23_RecoverFirst ==
    /\ \A j \in Idx :
          (/\ cmds[j].cmd = "publish list -raw"
           /\ \/ cloned_tree.InRelease
              \/ pc \in {"publish_show", "transition"} /\ home.public.InRelease)
            => \E i \in 1..(j - 1) : cmds[i].cmd = "db recover"
    /\ \A i \in Idx :
          cmds[i].cmd = "db recover" =>
            \/ pc = "repo_create" /\ i = Len(cmds)
            \/ i < Len(cmds) /\ cmds[i + 1].cmd = "repo create"

C23_Witness ==
    /\ pc = "done"
    /\ result = "returned"
    /\ cloned_tree.InRelease
    /\ FailedCmd("db recover")
    /\ IssuedCmd("publish list -raw")
    /\ Succeeded("git push")

\* the snapshot the invocation has created
Created == snap # <<>> /\ snap \in DOMAIN home.snaps

\* C24 as stated: the snapshot an invocation creates holds exactly the
\* package files of its packages directory, and no package when no
\* packages directory is given, also when the engine root is the one of
\* --aptly-root.
C24_AsStated == (pc # "done" /\ Created) => home.snaps[snap] = Glob(debs_dir)

ScriptIdx == 1..Len(script.cmds)

\* C25 as stated: whenever the publication exists the script issues the
\* switch first, and the add by source only after a failed switch.
C25_AsStated ==
    /\ (script.before.InRelease /\ script.cmds # <<>>) =>
          script.cmds[1].cmd = "publish switch"
    /\ \A j \in ScriptIdx :
          script.cmds[j].cmd = "publish source add" =>
            /\ j > 1
            /\ script.cmds[j - 1].cmd = "publish switch"
            /\ script.cmds[j - 1].rc # 0

\* C25 amended: the script decides from the files of the seeded tree:
\* publish snapshot when the distribution directory is missing, publish
\* switch when the directory of the component exists, and a failed switch
\* ends the invocation without fallback, else publish source add with
\* publish source replace as the fallback of a failed add; the library
\* class decides from the answer of the engine and the components of the
\* release index between switch, add and snapshot.
C25_Diverge ==
    /\ script.cmds # <<>> =>
          script.cmds[1].cmd =
              IF ~script.before.InRelease THEN "publish snapshot"
              ELSE IF script.component \in DOMAIN script.before.pkgs
              THEN "publish switch"
              ELSE "publish source add"
    /\ \A j \in ScriptIdx :
          /\ script.cmds[j].cmd \in {"publish switch", "publish source add",
                                     "publish snapshot"} => j = 1
          /\ (script.cmds[j].cmd = "publish switch" /\ script.cmds[j].rc # 0) =>
                (j = Len(script.cmds) /\ script.result = "CalledProcessError")
          /\ script.cmds[j].cmd = "publish source replace" =>
                /\ j = 2
                /\ script.cmds[1].cmd = "publish source add"
                /\ script.cmds[1].rc # 0
    /\ \A i \in Idx :
          /\ cmds[i].cmd = "publish switch" =>
                (our_publication_exists /\ self.component \in existing_components)
          /\ cmds[i].cmd = "publish add" =>
                (our_publication_exists /\ self.component \notin existing_components)
          /\ cmds[i].cmd = "publish snapshot" => ~our_publication_exists

C25_Witness ==
    /\ script.pc = "done"
    /\ script.result = "returned"
    /\ script.before.InRelease
    /\ script.cmds[1].cmd = "publish source add" /\ script.cmds[1].rc # 0
    /\ script.cmds[2].cmd = "publish source replace" /\ script.cmds[2].rc = 0

\* C26 as stated: after an invocation that ends successfully, every
\* component the release index of the published branch listed before the
\* run is still listed.
C26_AsStated ==
    (pc = "done" /\ result = "returned") =>
        ParseComponents(before.tree) \subseteq ParseComponents(remote.tree)

\* the commands of the script run with check=True
ScriptFatal ==
    {"publish snapshot", "publish switch", "publish source replace",
     "publish update", "rsync --delete", "git add", "git push"}

\* C27: an invocation of the library class or of the script that ends with
\* a nonzero exit status has left the published branch as it was; a push is
\* the last command of its invocation, and every command before it that is
\* fatal on failure has returned zero.
C27_FailedUnchanged ==
    /\ (pc = "done" /\ result \in {"CalledProcessError", "SystemExit"}) =>
          (remote.tree = before.tree /\ ~Succeeded("git push"))
    /\ \A i \in Idx :
          /\ cmds[i].cmd = "git push" => i = Len(cmds)
          /\ (cmds[Len(cmds)].cmd = "git push" /\ i < Len(cmds)
                /\ cmds[i].cmd \in FatalCommands) => cmds[i].rc = 0
    /\ script.result = "CalledProcessError" => script.remote = script.before
    /\ \A i \in ScriptIdx :
          /\ script.cmds[i].cmd = "git push" => i = Len(script.cmds)
          /\ (script.cmds[Len(script.cmds)].cmd = "git push"
                /\ i < Len(script.cmds)
                /\ script.cmds[i].cmd \in ScriptFatal) => script.cmds[i].rc = 0

C27_Witness ==
    /\ pc = "done"
    /\ result = "CalledProcessError"
    /\ cmds # <<>>
    /\ cmds[Len(cmds)].cmd = "git push" /\ cmds[Len(cmds)].rc # 0
    /\ Succeeded("git commit")
    /\ remote.tree = before.tree

\* C28 as stated: cleanup, analyze and init-policy given with only their own
\* required arguments, without --component, are accepted and dispatched to
\* their own handlers.
C28_AsStated ==
    (/\ cli.pc = "done"
     /\ cli.args.command \in {"cleanup", "analyze", "init-policy"}
     /\ ~cli.args.top_component) =>
        (cli.func = FuncOf(cli.args.command) /\ cli.exit # 2)

====
